---- MODULE Spec2Model ----
(***************************************************************************)
(* A model of sqlr, a read-only reader of SQLite database files: the byte  *)
(* codec, the record decoder, the page cache (FilePager), the B-tree       *)
(* scanner and the cursor.                                                 *)
(*                                                                         *)
(* Conventions.  A Rust slice buffer[a..b] is SubSeq(buffer, a + 1, b).    *)
(* anyhow::Result is a record [ok |-> TRUE, v |-> value] or                *)
(* [ok |-> FALSE, err |-> message]; Option is [tag |-> "None"] or          *)
(* [tag |-> "Some", v |-> value]; an abort (panic) of a function that has  *)
(* no error channel is the outcome [tag |-> "Panic"].                      *)
(***************************************************************************)
EXTENDS Integers, Sequences, FiniteSets, TLC

(***************************************************************************)
(* Bounds of the model.                                                    *)
(***************************************************************************)
\* deepest page stack explored (only trees with a cycle reach it)
MaxDepth == 4
\* number of records one scanner is followed for
MaxYield == 5
\* number of injected seek/read failures of the backing file
MaxFaults == 1
\* highest page number a client asks the pager for
MaxPage == 5
\* longest record buffer handed to the field decoder on its own
MaxPayloadLen == 3
\* highest field index asked of a cursor
MaxField == 3
\* longest run of bytes with the high bit set that starts a buffer given to
\* read_varint_at
MaxCont == 9
\* longest buffer given to the integer readers
MaxInput == 9
\* most bytes of serial types in a record buffer given to RecordHeader::parse
MaxTypes == 3
\* most payload bytes after them
MaxRecordPayload == 2
\* the discriminants from -MaxDiscriminant to MaxDiscriminant are given to
\* RecordFieldType::parse
MaxDiscriminant == 40
\* longest buffer given to PageHeader::parse
MaxHeaderLen == 13
\* most payload bytes in a buffer given to TableLeafCell::parse
MaxCellPayload == 3
\* most cell pointers in a buffer given to Page::parse
MaxPointers == 2
\* most cells of a positioned page called on its own
MaxCells == 2
\* most calls made on such a positioned page
MaxCalls == 5

(***************************************************************************)
(* Result and Option values.                                               *)
(***************************************************************************)
Ok(v) == [ok |-> TRUE, v |-> v]

Err(e) == [ok |-> FALSE, err |-> e]

None == [tag |-> "None"]

Some(v) == [tag |-> "Some", v |-> v]

Panic == [tag |-> "Panic"]

Pow2(n) == 2 ^ n

\* the element of a set of one element; {e : x \in {v}} is e with v named x
The(S) == CHOOSE x \in S : TRUE

\* Rust slice buffer[from..]
SliceFrom(buffer, from) == SubSeq(buffer, from + 1, Len(buffer))

(***************************************************************************)
(* 64-bit integers.  An i64 is kept as its eight bytes, most significant   *)
(* first, in two's complement: the integers of the model checker are       *)
(* narrower than an i64.                                                   *)
(***************************************************************************)
from_be_bytes(bytes) == [tag |-> "i64", be |-> bytes]

\* !x on every byte
not_bytes(bytes) == [i \in 1..Len(bytes) |-> 255 - bytes[i]]

\* `n as i64` of an integer n that fits an i32
as_i64(n) ==
    from_be_bytes(IF n >= 0
                  THEN <<0, 0, 0, 0, n \div 16777216, (n \div 65536) % 256,
                         (n \div 256) % 256, n % 256>>
                  ELSE <<255, 255, 255, 255,
                         255 - ((-(n + 1)) \div 16777216),
                         255 - (((-(n + 1)) \div 65536) % 256),
                         255 - (((-(n + 1)) \div 256) % 256),
                         255 - ((-(n + 1)) % 256)>>)

\* iN::from_be_bytes(bytes) as i64, for N = 8 * Len(bytes): sign extension
sign_extend(bytes) ==
    from_be_bytes([i \in 1..8 |->
                      IF i <= 8 - Len(bytes)
                      THEN IF bytes[1] >= 128 THEN 255 ELSE 0
                      ELSE bytes[i - (8 - Len(bytes))]])

\* (x << 7) | low for low < 128; the bits shifted out of the i64 are lost
shl7_or(x, low) ==
    from_be_bytes([i \in 1..8 |->
                      (x.be[i] % 2) * 128
                      + (IF i < 8 THEN x.be[i + 1] \div 2 ELSE low)])

\* (x << 8) | low for low < 256
shl8_or(x, low) ==
    from_be_bytes([i \in 1..8 |-> IF i < 8 THEN x.be[i + 1] ELSE low])

\* x << (8 * k)
shl_bytes(x, k) ==
    from_be_bytes([i \in 1..8 |-> IF i + k <= 8 THEN x.be[i + k] ELSE 0])

RECURSIVE add_bytes(_, _, _)
\* a + b + carry on equally long byte strings, the last carry dropped
add_bytes(a, b, carry) ==
    IF a = <<>> THEN <<>>
    ELSE LET n == Len(a)
             t == a[n] + b[n] + carry
         IN  Append(add_bytes(SubSeq(a, 1, n - 1), SubSeq(b, 1, n - 1),
                              t \div 256),
                    t % 256)

\* x + y, wrapping
wrapping_add(x, y) == from_be_bytes(add_bytes(x.be, y.be, 0))

\* the ones' complement for the negation
wrapping_neg_ones(x) == from_be_bytes(not_bytes(x.be))

\* -x, wrapping
wrapping_neg(x) ==
    from_be_bytes(add_bytes(not_bytes(x.be), <<0, 0, 0, 0, 0, 0, 0, 0>>, 1))

\* x & 0x0000FFFFFFFFFFFF
mask48(x) == from_be_bytes([i \in 1..8 |-> IF i <= 2 THEN 0 ELSE x.be[i]])

RECURSIVE bytes_lt(_, _)
\* a < b for equally long byte strings read as unsigned numbers
bytes_lt(a, b) ==
    IF a = <<>> THEN FALSE
    ELSE IF a[1] # b[1] THEN a[1] < b[1]
    ELSE bytes_lt(Tail(a), Tail(b))

is_negative(x) == x.be[1] >= 128

\* x < y on i64
i64_lt(x, y) ==
    IF is_negative(x) # is_negative(y)
    THEN is_negative(x)
    ELSE bytes_lt(x.be, y.be)

\* the integer an i64 stands for, when it fits an i32
as_int(x) ==
    IF is_negative(x)
    THEN -(((((255 - x.be[5]) * 256 + (255 - x.be[6])) * 256
              + (255 - x.be[7])) * 256 + (255 - x.be[8])) + 1)
    ELSE ((((((x.be[1] * 256 + x.be[2]) * 256 + x.be[3]) * 256 + x.be[4]) * 256
            + x.be[5]) * 256 + x.be[6]) * 256 + x.be[7]) * 256 + x.be[8]

(***************************************************************************)
(* usize offsets.  An offset is an integer of the model; the offsets just  *)
(* below 2^64 are written as negative integers, 2^64 - k as -k, so that    *)
(* offset + k wraps as it does in a 64-bit usize.                          *)
(***************************************************************************)
\* offset + k leaves the usize range
add_overflows(offset, k) == offset < 0 /\ offset + k >= 0

\* a <= b on usize
usize_le(a, b) == IF (a < 0) = (b < 0) THEN a <= b ELSE b < 0

\* an addition that overflowed: an abort when overflow checks are compiled
\* in (debug builds), the outcome `release` of the wrapped sum when not
Overflow(release) ==
    IF release = Panic
    THEN Panic
    ELSE [tag |-> "Overflow", release |-> release]

\* what the build without overflow checks makes of an outcome
release_of(r) == IF r.tag = "Overflow" THEN r.release ELSE r

(***************************************************************************)
(* utils.rs: the byte codec.                                               *)
(***************************************************************************)
RECURSIVE varint_loop_7bits(_, _, _, _)
\* varint_loop taking 7 bits of the ninth byte too
varint_loop_7bits(rest, i, bytes, res) ==
    IF rest = <<>> \/ i >= 9
    THEN <<bytes, res>>
    ELSE IF Head(rest) < 128 \/ i = 8
         THEN <<bytes + 1, shl7_or(res, Head(rest) % 128)>>
         ELSE varint_loop_7bits(Tail(rest), i + 1, bytes + 1,
                                shl7_or(res, Head(rest) % 128))

RECURSIVE varint_loop_take8(_, _, _, _)
\* varint_loop with take(8) for take(9)
varint_loop_take8(rest, i, bytes, res) ==
    IF rest = <<>> \/ i >= 8
    THEN <<bytes, res>>
    ELSE IF Head(rest) < 128
         THEN <<bytes + 1, shl7_or(res, Head(rest) % 128)>>
         ELSE varint_loop_take8(Tail(rest), i + 1, bytes + 1,
                                shl7_or(res, Head(rest) % 128))

RECURSIVE varint_loop(_, _, _, _)
\* the for loop of read_varint_at over buffer[offset..], at most 9 bytes
varint_loop(rest, i, bytes, res) ==
    IF rest = <<>> \/ i >= 9
    THEN <<bytes, res>>
    ELSE LET byte == Head(rest)
         IN  IF i = 8
             THEN <<bytes + 1, shl8_or(res, byte)>>
             ELSE IF byte < 128
                  THEN <<bytes + 1, shl7_or(res, byte % 128)>>
                  ELSE varint_loop(Tail(rest), i + 1, bytes + 1,
                                   The({r : r \in {shl7_or(res, byte % 128)}}))

read_varint_at(buffer, offset) ==
    IF ~usize_le(Len(buffer), offset)
    THEN varint_loop(SliceFrom(buffer, offset), 0, 0, as_i64(0))
    ELSE <<0, as_i64(0)>>

\* offsets near 2^64 are not given to read_be_word_at
read_be_word_at(input, offset) ==
    IF Len(input) >= offset + 2
    THEN <<2, input[offset + 1] * 256 + input[offset + 2]>>
    ELSE IF Len(input) > offset
         THEN <<1, input[offset + 1]>>
         ELSE <<0, 0>>

\* a u32 is an integer of the model; those of 2^31 and above are written
\* as negative integers, 2^32 - k as -k
u32_from_be_bytes(b1, b2, b3, b4) ==
    (((IF b1 >= 128 THEN b1 - 256 ELSE b1) * 256 + b2) * 256 + b3) * 256 + b4

read_be_double_word_at(input, offset) ==
    IF Len(input) >= offset + 4
    THEN <<4, u32_from_be_bytes(input[offset + 1], input[offset + 2],
                                input[offset + 3], input[offset + 4])>>
    ELSE read_be_word_at(input, offset)

read_i8_at(input, offset) ==
    IF usize_le(Len(input), offset)
    THEN as_i64(0)
    ELSE IF input[offset + 1] >= 128
         THEN as_i64(-((255 - input[offset + 1]) + 1))
         ELSE as_i64(input[offset + 1])

read_i16_at(input, offset) ==
    IF add_overflows(offset, 2)
    THEN IF offset + 2 <= Len(input)
         THEN Panic
         ELSE Overflow(release_of(read_i8_at(input, offset)))
    ELSE IF usize_le(offset + 2, Len(input))
         THEN sign_extend(SubSeq(input, offset + 1, offset + 2))
         ELSE read_i8_at(input, offset)

read_i24_at(input, offset) ==
    IF add_overflows(offset, 3)
    THEN IF offset + 3 <= Len(input)
         THEN Panic
         ELSE Overflow(release_of(read_i16_at(input, offset)))
    ELSE IF usize_le(offset + 3, Len(input))
         THEN IF input[offset + 1] >= 128
              THEN as_i64(-((((255 - input[offset + 1]) * Pow2(16)
                              + (255 - input[offset + 2]) * Pow2(8)
                              + (255 - input[offset + 3])) % Pow2(24)) + 1))
              ELSE as_i64((input[offset + 1] * Pow2(16)
                           + input[offset + 2] * Pow2(8)
                           + input[offset + 3]) % Pow2(24))
         ELSE read_i16_at(input, offset)

read_i32_at(input, offset) ==
    IF add_overflows(offset, 4)
    THEN IF offset + 4 <= Len(input)
         THEN Panic
         ELSE Overflow(release_of(read_i24_at(input, offset)))
    ELSE IF usize_le(offset + 4, Len(input))
         THEN sign_extend(SubSeq(input, offset + 1, offset + 4))
         ELSE read_i24_at(input, offset)

\* (input[offset + i] as i64) << (8 * (5 - i)) summed over i = 0..5, each
\* byte complemented first when `complemented`
sum48(input, offset, complemented) ==
    LET term(i) == shl_bytes(as_i64(IF complemented
                                    THEN 255 - input[offset + 1 + i]
                                    ELSE input[offset + 1 + i]),
                             5 - i)
    IN  wrapping_add(term(0),
          wrapping_add(term(1),
            wrapping_add(term(2),
              wrapping_add(term(3), wrapping_add(term(4), term(5))))))

read_i48_at(input, offset) ==
    IF add_overflows(offset, 6)
    THEN IF offset + 6 <= Len(input)
         THEN Panic
         ELSE Overflow(release_of(read_i32_at(input, offset)))
    ELSE IF usize_le(offset + 6, Len(input))
         THEN IF input[offset + 1] >= 128
              THEN wrapping_neg(wrapping_add(mask48(sum48(input, offset, TRUE)),
                                             as_i64(1)))
              ELSE mask48(sum48(input, offset, FALSE))
         ELSE read_i32_at(input, offset)

read_i64_at(input, offset) ==
    IF add_overflows(offset, 8)
    THEN IF offset + 8 <= Len(input)
         THEN Panic
         ELSE Overflow(release_of(read_i48_at(input, offset)))
    ELSE IF usize_le(offset + 8, Len(input))
         THEN from_be_bytes(SubSeq(input, offset + 1, offset + 8))
         ELSE read_i48_at(input, offset)

\* the signed reader of a width
read_int_at(width, input, offset) ==
    CASE width = 8 -> read_i8_at(input, offset)
      [] width = 16 -> read_i16_at(input, offset)
      [] width = 24 -> read_i24_at(input, offset)
      [] width = 32 -> read_i32_at(input, offset)
      [] width = 48 -> read_i48_at(input, offset)
      [] width = 64 -> read_i64_at(input, offset)

\* an f64 is kept as the IEEE-754 bit pattern it was built from: binary64
\* bits, or binary32 bits widened, or the literal 0.0
read_f64_at(input, offset) ==
    LET zero == [tag |-> "f64", from |-> "binary64",
                 bits |-> <<0, 0, 0, 0, 0, 0, 0, 0>>]
    IN  IF add_overflows(offset, 8)
        THEN IF offset + 8 <= Len(input)
                \/ (add_overflows(offset, 4) /\ offset + 4 <= Len(input))
             THEN Panic
             ELSE Overflow(zero)
        ELSE IF usize_le(offset + 8, Len(input))
        THEN [tag |-> "f64", from |-> "binary64",
              bits |-> SubSeq(input, offset + 1, offset + 8)]
        ELSE IF usize_le(offset + 4, Len(input))
        THEN [tag |-> "f64", from |-> "binary32",
              bits |-> SubSeq(input, offset + 1, offset + 4)]
        ELSE zero

(***************************************************************************)
(* The SQLite varint encoding of an i64, in its shortest form: the writer  *)
(* that read_varint_at is the reader of.  A value whose top byte is not    *)
(* zero takes 9 bytes, 7 bits in each of the first eight and 8 bits in the *)
(* ninth; any other takes one byte for each group of 7 bits from its first *)
(* non-zero group on, one byte at least; every byte but the last has the   *)
(* high bit set.                                                           *)
(***************************************************************************)
\* bit n of x, bit 1 the most significant of 64
bit_of(x, n) == (x.be[((n - 1) \div 8) + 1] \div Pow2(7 - ((n - 1) % 8))) % 2

\* the 7 bits of x from bit n on, as a number
group7(x, n) ==
    bit_of(x, n) * 64 + bit_of(x, n + 1) * 32 + bit_of(x, n + 2) * 16
    + bit_of(x, n + 3) * 8 + bit_of(x, n + 4) * 4 + bit_of(x, n + 5) * 2
    + bit_of(x, n + 6)

varint_encode(x) ==
    IF x.be[1] # 0
    THEN [j \in 1..9 |-> IF j = 9 THEN x.be[8] ELSE 128 + group7(x, 7 * j - 6)]
    ELSE LET used == {j \in 1..8 : group7(x, 7 * j + 2) # 0} \cup {8}
             first == CHOOSE j \in used : \A k \in used : j <= k
         IN  [j \in 1..(9 - first) |->
                 (IF j = 9 - first THEN 0 ELSE 128)
                 + group7(x, 7 * (first + j - 1) + 2)]

(***************************************************************************)
(* std::str::from_utf8, as far as the decoder uses it: is the byte string  *)
(* well-formed UTF-8 ?                                                     *)
(***************************************************************************)
IsCont(b) == b >= 128 /\ b <= 191

RECURSIVE IsUtf8(_)
IsUtf8(s) ==
    IF s = <<>> THEN TRUE
    ELSE LET b == s[1]
             n == Len(s)
         IN  IF b < 128 THEN IsUtf8(Tail(s))
             ELSE IF b >= 194 /\ b <= 223
             THEN n >= 2 /\ IsCont(s[2]) /\ IsUtf8(SliceFrom(s, 2))
             ELSE IF b >= 224 /\ b <= 239
             THEN /\ n >= 3
                  /\ IsCont(s[2]) /\ IsCont(s[3])
                  /\ (b = 224 => s[2] >= 160)
                  /\ (b = 237 => s[2] <= 159)
                  /\ IsUtf8(SliceFrom(s, 3))
             ELSE IF b >= 240 /\ b <= 244
             THEN /\ n >= 4
                  /\ IsCont(s[2]) /\ IsCont(s[3]) /\ IsCont(s[4])
                  /\ (b = 240 => s[2] >= 144)
                  /\ (b = 244 => s[2] <= 143)
                  /\ IsUtf8(SliceFrom(s, 4))
             ELSE FALSE

(***************************************************************************)
(* record/record_field_type.rs                                             *)
(***************************************************************************)
FieldType(t) == [tag |-> t, len |-> 0]

SizedFieldType(t, len) == [tag |-> t, len |-> len]

\* discriminant is an i64.  No arm of the match takes a negative number;
\* the others are matched as integers of the model, which holds the
\* discriminants below 2^31
RecordFieldType_parse(discriminant) ==
    IF is_negative(discriminant)
    THEN Err([msg |-> "unsupported field type", n |-> discriminant])
    ELSE The({CASE n = 0 -> Ok(FieldType("Null"))
                [] n = 1 -> Ok(FieldType("I8"))
                [] n = 2 -> Ok(FieldType("I16"))
                [] n = 3 -> Ok(FieldType("I24"))
                [] n = 4 -> Ok(FieldType("I32"))
                [] n = 5 -> Ok(FieldType("I48"))
                [] n = 6 -> Ok(FieldType("I64"))
                [] n = 7 -> Ok(FieldType("Float"))
                [] n = 8 -> Ok(FieldType("Zero"))
                [] n = 9 -> Ok(FieldType("One"))
                [] n >= 12 /\ n % 2 = 0 ->
                       Ok(SizedFieldType("Blob", (n - 12) \div 2))
                [] n >= 13 /\ n % 2 = 1 ->
                       Ok(SizedFieldType("String", (n - 13) \div 2))
                [] OTHER ->
                       Err([msg |-> "unsupported field type", n |-> discriminant])
              : n \in {as_int(discriminant)}})

\* RecordFieldType_size with 5 bytes for I48
RecordFieldType_size_i48(self) ==
    CASE self.tag = "I8" -> 1
      [] self.tag = "I16" -> 2
      [] self.tag = "I24" -> 3
      [] self.tag = "I32" -> 4
      [] self.tag = "I48" -> 5
      [] self.tag \in {"I64", "Float"} -> 8
      [] self.tag \in {"Blob", "String"} -> self.len
      [] OTHER -> 0

RecordFieldType_size(self) ==
    CASE self.tag = "Null" -> 0
      [] self.tag = "I8" -> 1
      [] self.tag = "I16" -> 2
      [] self.tag = "I24" -> 3
      [] self.tag = "I32" -> 4
      [] self.tag = "I48" -> 6
      [] self.tag = "I64" -> 8
      [] self.tag = "Float" -> 8
      [] self.tag = "Zero" -> 0
      [] self.tag = "One" -> 0
      [] self.tag = "Blob" -> self.len
      [] self.tag = "String" -> self.len

\* value.rs, enum Value
ValueNull == [tag |-> "Null"]

ValueInt(i) == [tag |-> "Int", int |-> i]

ValueFloat(f) == [tag |-> "Float", float |-> f]

ValueBlob(b) == [tag |-> "Blob", bytes |-> b]

ValueString(b) == [tag |-> "String", bytes |-> b]

\* &payload[offset..offset + length] aborts when the range leaves the payload
SliceInRange(payload, offset, length) ==
    offset >= 0 /\ length >= 0 /\ offset + length <= Len(payload)

\* Some(Value::Int(r)) of what an integer reader returned
SomeInt(r) ==
    CASE r.tag = "Panic" -> Panic
      [] r.tag = "Overflow" -> Overflow(Some(ValueInt(r.release)))
      [] OTHER -> Some(ValueInt(r))

\* Some(Value::Float(r)) of what read_f64_at returned
SomeFloat(r) ==
    CASE r.tag = "Panic" -> Panic
      [] r.tag = "Overflow" -> Overflow(Some(ValueFloat(r.release)))
      [] OTHER -> Some(ValueFloat(r))

RecordFieldType_value(self, payload, offset) ==
    CASE self.tag = "Null" -> Some(ValueNull)
      [] self.tag = "I8" -> SomeInt(read_i8_at(payload, offset))
      [] self.tag = "I16" -> SomeInt(read_i16_at(payload, offset))
      [] self.tag = "I24" -> SomeInt(read_i24_at(payload, offset))
      [] self.tag = "I32" -> SomeInt(read_i32_at(payload, offset))
      [] self.tag = "I48" -> SomeInt(read_i48_at(payload, offset))
      [] self.tag = "I64" -> SomeInt(read_i64_at(payload, offset))
      [] self.tag = "Float" -> SomeFloat(read_f64_at(payload, offset))
      [] self.tag = "Blob" ->
             IF SliceInRange(payload, offset, self.len)
             THEN Some(ValueBlob(SubSeq(payload, offset + 1, offset + self.len)))
             ELSE Panic
      [] self.tag = "String" ->
             IF /\ SliceInRange(payload, offset, self.len)
                /\ IsUtf8(SubSeq(payload, offset + 1, offset + self.len))
             THEN Some(ValueString(SubSeq(payload, offset + 1, offset + self.len)))
             ELSE Panic
      [] OTHER -> None

(***************************************************************************)
(* record/record_header.rs                                                 *)
(***************************************************************************)
RECURSIVE parse_fields_by_one(_, _, _)
\* parse_fields with current_offset += 1
parse_fields_by_one(buffer, fields, current_offset) ==
    IF buffer = <<>>
    THEN Ok([fields |-> fields])
    ELSE LET d == read_varint_at(buffer, 0)
             field_type == RecordFieldType_parse(d[2])
         IN  IF ~field_type.ok
             THEN field_type
             ELSE parse_fields_by_one(
                      SliceFrom(buffer, d[1]),
                      Append(fields, [offset |-> current_offset,
                                      field_type |-> field_type.v]),
                      current_offset + 1)

RECURSIVE parse_fields(_, _, _)
\* the while loop of RecordHeader::parse over the serial types
parse_fields(buffer, fields, current_offset) ==
    IF buffer = <<>>
    THEN Ok([fields |-> fields])
    ELSE The({The({IF ~field_type.ok
                   THEN field_type
                   ELSE parse_fields(
                            SliceFrom(buffer, d[1]),
                            Append(fields, [offset |-> current_offset,
                                            field_type |-> field_type.v]),
                            current_offset + RecordFieldType_size(field_type.v))
                   : field_type \in {RecordFieldType_parse(d[2])}})
              : d \in {read_varint_at(buffer, 0)}})

\* RecordHeader_parse without the test header_length < varint_size
RecordHeader_parse_unchecked(buffer) ==
    LET vi == read_varint_at(buffer, 0)
    IN  IF bytes_lt(as_i64(Len(buffer)).be, vi[2].be)
        THEN Err([msg |-> "header length too large", n |-> vi[2]])
        ELSE parse_fields(SubSeq(buffer, vi[1] + 1, as_int(vi[2])), <<>>,
                          as_int(vi[2]))

RecordHeader_parse(buffer) ==
    The({LET varint_size == vi[1]
             header_length == vi[2]
         IN  IF \/ i64_lt(header_length, as_i64(varint_size))
                \/ bytes_lt(as_i64(Len(buffer)).be, header_length.be)
             THEN Err([msg |-> "header length too large", n |-> header_length])
             ELSE The({parse_fields(SubSeq(buffer, varint_size + 1, hl), <<>>, hl)
                       : hl \in {as_int(header_length)}})
         : vi \in {read_varint_at(buffer, 0)}})

(***************************************************************************)
(* paging/page_header.rs, paging/cell.rs, paging/page.rs: decoded pages.   *)
(***************************************************************************)
HEADER_SIZE == 100

PAGE_MAX_SIZE == 65536

(***************************************************************************)
(* db.rs: the header of the database file.                                 *)
(***************************************************************************)
\* b"SQLite format 3\0"
HEADER_PREFIX ==
    <<83, 81, 76, 105, 116, 101, 32, 102, 111, 114, 109, 97, 116, 32, 51, 0>>

HEADER_PAGE_SIZE_OFFSET == 16

\* slice::starts_with
starts_with(buffer, prefix) ==
    Len(buffer) >= Len(prefix) /\ SubSeq(buffer, 1, Len(prefix)) = prefix

\* u16::is_power_of_two: exactly one bit is set
is_power_of_two(n) == \E k \in 0..15 : n = Pow2(k)

DbHeader(page_size) == [page_size |-> page_size]

DbHeader_parse(buffer) ==
    IF ~starts_with(buffer, HEADER_PREFIX)
    THEN Err([msg |-> "invalid header prefix",
              prefix |-> SubSeq(buffer, 1, IF Len(buffer) < Len(HEADER_PREFIX)
                                           THEN Len(buffer)
                                           ELSE Len(HEADER_PREFIX))])
    ELSE LET page_size_raw == read_be_word_at(buffer, HEADER_PAGE_SIZE_OFFSET)[2]
         IN  CASE page_size_raw = 1 -> Ok(DbHeader(PAGE_MAX_SIZE))
               [] page_size_raw # 1 /\ is_power_of_two(page_size_raw) ->
                      Ok(DbHeader(page_size_raw))
               [] OTHER -> Err([msg |-> "page size is not a power of 2",
                                n |-> page_size_raw])

TableLeafPageHeader(cell_count) ==
    [variant |-> "TableLeafPageHeader", first_freeblock |-> 0,
     cell_count |-> cell_count, cell_content_offset |-> PAGE_MAX_SIZE,
     fragmented_bytes_count |-> 0]

TableInteriorPageHeader(cell_count, rightmost_pointer) ==
    [variant |-> "TableInteriorPageHeader", first_freeblock |-> 0,
     cell_count |-> cell_count, cell_content_offset |-> PAGE_MAX_SIZE,
     fragmented_bytes_count |-> 0, rightmost_pointer |-> rightmost_pointer]

PageHeader_rightmost_pointer(self) ==
    IF self.variant = "TableInteriorPageHeader"
    THEN Some(self.rightmost_pointer)
    ELSE None

TableLeafCell(row_id, payload) ==
    [variant |-> "TableLeaf", size |-> as_i64(Len(payload)),
     row_id |-> as_i64(row_id), payload |-> payload]

TableInteriorCell(left_child_page, key) ==
    [variant |-> "TableInterior", left_child_page |-> left_child_page,
     key |-> as_i64(key)]

\* struct Page; the cell pointers of the pages below are laid out 16 apart
Page(header, cells) ==
    [header |-> header,
     cell_pointers |-> [i \in 1..Len(cells) |-> 16 * i],
     cells |-> cells]

(***************************************************************************)
(* The backing file.  It is a sequence of blocks of page_size bytes; a     *)
(* block is kept as what its bytes decode to when the page header is read  *)
(* at byte 0 (at0) and when it is read at byte HEADER_SIZE (at100), the    *)
(* two places Page::parse looks at.                                        *)
(***************************************************************************)
UnknownPageType == Err([msg |-> "unknown page type"])

Block(at0, at100) == [at0 |-> at0, at100 |-> at100]

\* bytes that do not start at a block boundary decode to no page
Junk == Block(UnknownPageType, UnknownPageType)

file_len(file, size) == Len(file) * size

bytes_at(file, size, offset) ==
    IF offset % size = 0 THEN file[(offset \div size) + 1] ELSE Junk

\* Page::parse: page 1 is decoded after the HEADER_SIZE bytes of the file header
Page_parse(buffer, page_num) ==
    LET ptr_offset == IF page_num = 1 THEN HEADER_SIZE ELSE 0
    IN  IF ptr_offset = 0 THEN buffer.at0 ELSE buffer.at100

(***************************************************************************)
(* The decoders of a page, byte by byte: page/page_header.rs,              *)
(* paging/page_type.rs, paging/cell.rs and paging/page.rs.  Page_parse     *)
(* above is what Page_parse_bytes makes of the bytes of a block.           *)
(***************************************************************************)
PageType_parse(buffer) ==
    CASE buffer[1] = 13 -> Ok("TableLeaf")
      [] buffer[1] = 5 -> Ok("TableInterior")
      [] OTHER -> Err([msg |-> "unknown page type", n |-> buffer[1]])

\* buffer[7] is read whatever the length: out of bounds for 7 bytes
PageHeader_parse(buffer) ==
    IF Len(buffer) < 7
    THEN Err([msg |-> "page header must be at least 7-byte long"])
    ELSE The({
         IF ~page_type.ok
         THEN page_type
         ELSE IF Len(buffer) < 8
         THEN Panic
         ELSE LET first_freeblock == read_be_word_at(buffer, 1)[2]
                  cell_count == read_be_word_at(buffer, 3)[2]
                  raw == read_be_word_at(buffer, 5)[2]
                  cell_content_offset == IF raw = 0 THEN PAGE_MAX_SIZE ELSE raw
                  fragmented_bytes_count == buffer[8]
              IN  IF page_type.v = "TableInterior"
                  THEN Ok([variant |-> "TableInteriorPageHeader",
                           first_freeblock |-> first_freeblock,
                           cell_count |-> cell_count,
                           cell_content_offset |-> cell_content_offset,
                           fragmented_bytes_count |-> fragmented_bytes_count,
                           rightmost_pointer |->
                               read_be_double_word_at(buffer, 8)[2]])
                  ELSE Ok([variant |-> "TableLeafPageHeader",
                           first_freeblock |-> first_freeblock,
                           cell_count |-> cell_count,
                           cell_content_offset |-> cell_content_offset,
                           fragmented_bytes_count |-> fragmented_bytes_count])
         : page_type \in {PageType_parse(buffer)} })

PageHeader_byte_size(self) ==
    IF self.variant = "TableInteriorPageHeader" THEN 12 ELSE 8

TableInteriorCell_parse(buffer) ==
    LET dw == read_be_double_word_at(buffer, 0)
        rest == SliceFrom(buffer, dw[1])
    IN  Ok([variant |-> "TableInterior", left_child_page |-> dw[2],
            key |-> read_varint_at(rest, 0)[2]])

\* the payload is the whole remainder, whatever the size
TableLeafCell_parse_remainder(buffer) ==
    LET size == read_varint_at(buffer, 0)
        buffer1 == SliceFrom(buffer, size[1])
        row_id == read_varint_at(buffer1, 0)
        buffer2 == SliceFrom(buffer1, row_id[1])
    IN  Ok([variant |-> "TableLeaf", size |-> size[2], row_id |-> row_id[2],
            payload |-> buffer2])

\* `size as usize` keeps the 64 bits of size, so su <= buffer.len() is a
\* comparison of unsigned values
TableLeafCell_parse(buffer) ==
    LET size == read_varint_at(buffer, 0)
        buffer1 == SliceFrom(buffer, size[1])
        row_id == read_varint_at(buffer1, 0)
        buffer2 == SliceFrom(buffer1, row_id[1])
        su == size[2].be
        payload == IF ~bytes_lt(as_i64(Len(buffer2)).be, su)
                   THEN SubSeq(buffer2, 1, as_int(size[2]))
                   ELSE buffer2
    IN  Ok([variant |-> "TableLeaf", size |-> size[2], row_id |-> row_id[2],
            payload |-> payload])

\* cell_parsing_fn of Page::parse, named by the header it is chosen for
cell_parsing_fn(variant, buffer) ==
    IF variant = "TableInteriorPageHeader"
    THEN TableInteriorCell_parse(buffer)
    ELSE TableLeafCell_parse(buffer)

\* Vec<u16>
Vec(v) == [tag |-> "Vec", v |-> v]

RECURSIVE parse_cell_pointers_loop(_, _, _, _, _)
\* the loop of parse_cell_pointers from i on; a negative pointer stands for
\* a u16 subtraction that overflowed
parse_cell_pointers_loop(buffer, n, ptr_offset, i, pointers) ==
    IF i >= n
    THEN pointers
    ELSE LET offset == 2 * i
         IN  IF offset + 2 <= Len(buffer)
             THEN parse_cell_pointers_loop(
                      buffer, n, ptr_offset, i + 1,
                      Append(pointers,
                             read_be_word_at(buffer, offset)[2] - ptr_offset))
             ELSE pointers

Page_parse_cell_pointers(buffer, n, ptr_offset) ==
    LET pointers == parse_cell_pointers_loop(buffer, n, ptr_offset, 0, <<>>)
    IN  IF \E i \in 1..Len(pointers) : pointers[i] < 0
        THEN Overflow(Vec([i \in 1..Len(pointers) |-> pointers[i] % 65536]))
        ELSE Vec(pointers)

\* the cells in the reverse of the order of the cell pointers
Page_parse_cells_reversed(buffer, cell_pointers, variant) ==
    IF \E i \in 1..Len(cell_pointers) : cell_pointers[i] > Len(buffer)
    THEN Panic
    ELSE Ok([i \in 1..Len(cell_pointers) |->
                cell_parsing_fn(
                    variant,
                    SliceFrom(buffer,
                              cell_pointers[Len(cell_pointers) + 1 - i])).v])

\* &buffer[ptr..] aborts on a pointer past the end of the buffer; the
\* parsing functions return no error
Page_parse_cells(buffer, cell_pointers, variant) ==
    IF \E i \in 1..Len(cell_pointers) : cell_pointers[i] > Len(buffer)
    THEN Panic
    ELSE Ok([i \in 1..Len(cell_pointers) |->
                cell_parsing_fn(variant,
                                SliceFrom(buffer, cell_pointers[i])).v])

\* Page::parse from the header on, given the cell pointers
Page_of(content_buffer, header, cell_pointers) ==
    The({IF cells = Panic
         THEN Panic
         ELSE Ok([header |-> header, cell_pointers |-> cell_pointers,
                  cells |-> cells.v])
         : cells \in {Page_parse_cells(content_buffer, cell_pointers,
                                       header.variant)}})

Page_parse_bytes(buffer, page_num) ==
    LET ptr_offset == IF page_num = 1 THEN HEADER_SIZE ELSE 0
    IN  IF Len(buffer) < ptr_offset
        THEN Panic
        ELSE The({ The({
             IF header = Panic \/ ~header.ok
             THEN header
             ELSE IF Len(content_buffer) < PageHeader_byte_size(header.v)
             THEN Panic
             ELSE The({
                  IF cell_pointers.tag = "Overflow"
                  THEN Overflow(Page_of(content_buffer, header.v,
                                        cell_pointers.release.v))
                  ELSE Page_of(content_buffer, header.v, cell_pointers.v)
                  : cell_pointers \in {Page_parse_cell_pointers(
                        SliceFrom(content_buffer,
                                  PageHeader_byte_size(header.v)),
                        header.v.cell_count, ptr_offset)} })
             : header \in {PageHeader_parse(content_buffer)} })
             : content_buffer \in {SliceFrom(buffer, ptr_offset)} })

(***************************************************************************)
(* paging/pager.rs: FilePager.                                             *)
(***************************************************************************)
saturating_sub(a, b) == IF a >= b THEN a - b ELSE 0

Seek(offset) == [op |-> "seek", offset |-> offset]

ReadExact(len) == [op |-> "read", len |-> len]

\* the offset of page/pager.rs (line 35), which skips the file header as well
FilePager_offset_header(page_num, size) ==
    HEADER_SIZE + saturating_sub(page_num, 1) * size

\* line 32 of load_page
FilePager_offset(page_num, size) == saturating_sub(page_num, 1) * size

\* load_page; fault is the failure the file system injects: none, seek, read
FilePager_load_page(file, size, page_num, fault) ==
    LET offset == FilePager_offset(page_num, size)
    IN  IF fault = "seek"
        THEN [res |-> Err([msg |-> "seek to page start"]),
              io |-> <<Seek(offset)>>]
        ELSE IF fault = "read" \/ offset + size > file_len(file, size)
        THEN [res |-> Err([msg |-> "read page"]),
              io |-> <<Seek(offset), ReadExact(size)>>]
        ELSE [res |-> Page_parse(bytes_at(file, size, offset), page_num),
              io |-> <<Seek(offset), ReadExact(size)>>]

\* read_page without the lookup: a page in the cache is loaded again
FilePager_read_page_reload(cache, file, size, page_num, fault) ==
    LET page == FilePager_load_page(file, size, page_num, fault)
    IN  IF ~page.res.ok
        THEN [n |-> page_num, res |-> page.res, pages |-> cache, io |-> page.io]
        ELSE [n |-> page_num, res |-> Ok(page.res.v),
              pages |-> (page_num :> page.res.v) @@ cache, io |-> page.io]

\* read_page with a cache of one page: an insertion evicts the other entries
FilePager_read_page_evict(cache, file, size, page_num, fault) ==
    IF page_num \notin DOMAIN cache
    THEN LET page == FilePager_load_page(file, size, page_num, fault)
         IN  IF ~page.res.ok
             THEN [n |-> page_num, res |-> page.res, pages |-> cache,
                   io |-> page.io]
             ELSE [n |-> page_num, res |-> Ok(page.res.v),
                   pages |-> (page_num :> page.res.v), io |-> page.io]
    ELSE [n |-> page_num, res |-> Ok(cache[page_num]), pages |-> cache,
          io |-> <<>>]

\* read_page that empties the cache when a load fails
FilePager_read_page_clear(cache, file, size, page_num, fault) ==
    IF page_num \notin DOMAIN cache
    THEN LET page == FilePager_load_page(file, size, page_num, fault)
         IN  IF ~page.res.ok
             THEN [n |-> page_num, res |-> page.res, pages |-> <<>>,
                   io |-> page.io]
             ELSE [n |-> page_num, res |-> Ok(page.res.v),
                   pages |-> (page_num :> page.res.v) @@ cache, io |-> page.io]
    ELSE [n |-> page_num, res |-> Ok(cache[page_num]), pages |-> cache,
          io |-> <<>>]

\* read_page: the result, the cache afterwards and the file operations made
FilePager_read_page(cache, file, size, page_num, fault) ==
    IF page_num \notin DOMAIN cache
    THEN LET page == FilePager_load_page(file, size, page_num, fault)
         IN  IF ~page.res.ok
             THEN [n |-> page_num, res |-> page.res, pages |-> cache,
                   io |-> page.io]
             ELSE LET inserted == (page_num :> page.res.v) @@ cache
                  IN  [n |-> page_num, res |-> Ok(inserted[page_num]),
                       pages |-> inserted, io |-> page.io]
    ELSE [n |-> page_num, res |-> Ok(cache[page_num]), pages |-> cache,
          io |-> <<>>]

\* the part of a read_page call that the history variable reads keeps
Call(r) == [n |-> r.n, res |-> r.res, io |-> r.io]

(***************************************************************************)
(* page/positioned_page.rs                                                 *)
(***************************************************************************)
\* a positioned page that starts after its first cell
PositionedPage_at_one(page) == [page |-> page, cell_num |-> 1]

PositionedPage(page) == [page |-> page, cell_num |-> 0]

\* the cell at cell_num, with cell_num left where it is
PositionedPage_next_cell_stay(self) ==
    IF self.cell_num < Len(self.page.cells)
    THEN [ret |-> Some(self.page.cells[self.cell_num + 1]), self |-> self]
    ELSE [ret |-> None, self |-> self]

PositionedPage_next_cell(self) ==
    IF self.cell_num < Len(self.page.cells)
    THEN [ret |-> Some(self.page.cells[self.cell_num + 1]),
          self |-> [self EXCEPT !.cell_num = @ + 1]]
    ELSE [ret |-> None, self |-> self]

PositionedPage_next_page_pointer(self) ==
    IF self.page.header.variant = "TableInteriorPageHeader"
    THEN IF self.cell_num >= Len(self.page.cells)
         THEN [ret |-> PageHeader_rightmost_pointer(self.page.header),
               self |-> [self EXCEPT !.cell_num = Len(self.page.cells) + 1]]
         ELSE [ret |-> None, self |-> self]
    ELSE [ret |-> None, self |-> self]

(***************************************************************************)
(* scanner.rs                                                              *)
(***************************************************************************)
PagePointer(p) == [tag |-> "PagePointer", p |-> p]

CursorElem(header, payload) ==
    [tag |-> "Cursor", cursor |-> [header |-> header, payload |-> payload]]

\* current_page: loads and pushes the root when the stack is empty
Scanner_current_page(stack, cache, file, size, root, fault) ==
    IF stack = <<>>
    THEN LET r == FilePager_read_page(cache, file, size, root, fault)
         IN  IF ~r.res.ok
             THEN [res |-> r.res, stack |-> stack, pages |-> cache,
                   reads |-> <<Call(r)>>]
             ELSE [res |-> Ok(TRUE), pages |-> r.pages,
                   stack |-> <<PositionedPage(r.res.v)>>,
                   reads |-> <<Call(r)>>]
    ELSE [res |-> Ok(TRUE), stack |-> stack, pages |-> cache, reads |-> <<>>]

\* next_elem: the element, the stack and cache afterwards, the pager calls
\* made, and which step failed when the element is an error.  The values
\* next_elem binds are named after the expression that uses them: cp is
\* what current_page leaves, pp and nc what next_page_pointer and next_cell
\* return, header what RecordHeader::parse returns.
Scanner_next_elem(stack, cache, file, size, root, fault) ==
    The({
    IF ~cp.res.ok
    THEN [res |-> cp.res, stack |-> cp.stack, pages |-> cp.pages,
          reads |-> cp.reads, failed |-> "read_page"]
    ELSE The({ The({
         LET out(res, pos_page, failed) ==
                 [res |-> res,
                  stack |-> [cp.stack EXCEPT ![Len(cp.stack)] = pos_page],
                  pages |-> cp.pages, reads |-> cp.reads, failed |-> failed]
         IN  IF pp.ret.tag = "Some"
             THEN out(Ok(Some(PagePointer(pp.ret.v))), pp.self, "none")
             ELSE IF nc.ret.tag = "None"
             THEN out(Ok(None), nc.self, "none")
             ELSE IF nc.ret.v.variant = "TableLeaf"
             THEN The({
                  IF ~header.ok
                  THEN out(header, nc.self, "RecordHeader_parse")
                  ELSE out(Ok(Some(CursorElem(header.v, nc.ret.v.payload))),
                           nc.self, "none")
                  : header \in {RecordHeader_parse(nc.ret.v.payload)} })
             ELSE out(Ok(Some(PagePointer(nc.ret.v.left_child_page))),
                      nc.self, "none")
         : nc \in {PositionedPage_next_cell(pp.self)} })
         : pp \in {PositionedPage_next_page_pointer(cp.stack[Len(cp.stack)])} })
    : cp \in {Scanner_current_page(stack, cache, file, size, root, fault)} })

(***************************************************************************)
(* The database files explored.  A Row is a table leaf cell whose record   *)
(* has one I8 field.                                                       *)
(***************************************************************************)
Row(v) == TableLeafCell(v, <<2, 1, v>>)

\* a leaf cell whose record header names the reserved serial type 10
BadRow(v) == TableLeafCell(v, <<2, 10>>)

LeafPage(cells) == Page(TableLeafPageHeader(Len(cells)), cells)

InteriorPage(cells, rightmost_pointer) ==
    Page(TableInteriorPageHeader(Len(cells), rightmost_pointer), cells)

\* the first block of a database file: it starts with the file header
FirstBlock(page) == Block(UnknownPageType, Ok(page))

OtherBlock(page) == Block(Ok(page), UnknownPageType)

\* one block that decodes both at byte 0 and at byte HEADER_SIZE
FileLeaf ==
    << Block(Ok(LeafPage(<<Row(7)>>)), Ok(LeafPage(<<Row(1), Row(2)>>))) >>

\* an interior root over three leaves
FileTree ==
    << FirstBlock(InteriorPage(<<TableInteriorCell(2, 1),
                                 TableInteriorCell(3, 2)>>, 4)),
       OtherBlock(LeafPage(<<Row(1)>>)),
       OtherBlock(LeafPage(<<Row(2)>>)),
       OtherBlock(LeafPage(<<Row(3), Row(4)>>)) >>

\* an interior page under the first cell of an interior root
FileNested ==
    << FirstBlock(InteriorPage(<<TableInteriorCell(2, 3)>>, 3)),
       OtherBlock(InteriorPage(<<TableInteriorCell(4, 1)>>, 5)),
       OtherBlock(LeafPage(<<Row(5)>>)),
       OtherBlock(LeafPage(<<Row(1)>>)),
       OtherBlock(LeafPage(<<Row(3)>>)) >>

\* the rightmost leaf has no cell
FileEmptyRight ==
    << FirstBlock(InteriorPage(<<TableInteriorCell(2, 1)>>, 3)),
       OtherBlock(LeafPage(<<Row(1)>>)),
       OtherBlock(LeafPage(<<>>)) >>

\* a bad record, a block that is no page, and a pointer past the end
FileBroken ==
    << FirstBlock(InteriorPage(<<TableInteriorCell(2, 2),
                                 TableInteriorCell(3, 3),
                                 TableInteriorCell(9, 4)>>, 4)),
       OtherBlock(LeafPage(<<Row(1), BadRow(8), Row(2)>>)),
       Junk,
       OtherBlock(LeafPage(<<Row(3)>>)) >>

\* the root is its own rightmost child
FileCycle ==
    << FirstBlock(InteriorPage(<<TableInteriorCell(2, 1)>>, 1)),
       OtherBlock(LeafPage(<<Row(1)>>)) >>

\* records of every field type
FileTyped ==
    << FirstBlock(LeafPage(<<TableLeafCell(1, <<3, 15, 1, 97, 7>>),
                             TableLeafCell(2, <<3, 8, 9>>),
                             TableLeafCell(3, <<2, 15>>),
                             TableLeafCell(4, <<2, 15, 255>>),
                             TableLeafCell(5, <<4, 0, 12, 14, 200>>)>>)),
       OtherBlock(LeafPage(<<TableLeafCell(6, <<1>>),
                             TableLeafCell(7, <<5, 2, 3, 4, 7, 128, 1, 2, 3>>)>>)) >>

Files == {FileLeaf, FileTree, FileNested, FileEmptyRight, FileBroken,
          FileCycle, FileTyped}

PageSizes == {512, 4096}

PageNums == 0..MaxPage

(***************************************************************************)
(* State.                                                                  *)
(***************************************************************************)
VARIABLES
    disk,             \* the backing file (FilePager.input)
    page_size,        \* FilePager.page_size
    pages,            \* FilePager.pages, the cache
    faults,           \* failures injected so far
    reads,            \* history: the read_page calls of the latest step
    first_ret,        \* history: the page the first successful read_page(n) returned
    pc,               \* "noscanner", "idle" (between calls), "loop" (in next_record)
    initial_page_num, \* Scanner.initial_page_num
    page_stack,       \* Scanner.page_stack
    result,           \* what the latest next_record call returned
    yielded,          \* history: the cursors this scanner has returned
    failed,           \* history: the step that failed in the latest iteration
    errored,          \* history: this scanner has returned an error
    ended,            \* history: this scanner has returned None: "no", "once", "again"
    cursor,           \* a Cursor (cursor.rs)
    field_n,          \* the argument of the latest Cursor::field call
    field_result,     \* what it returned
    dec_in,           \* the arguments of the latest RecordFieldType::value call
    dec_out,          \* what it returned
    call_in,          \* the latest call of a function of the codec: fn and arguments
    call_out          \* what it returned

pager_vars == <<disk, page_size, pages, faults, reads, first_ret>>

scanner_vars == <<pc, initial_page_num, page_stack, result, yielded, failed,
                  errored, ended>>

cursor_vars == <<cursor, field_n, field_result>>

decode_vars == <<dec_in, dec_out, call_in, call_out>>

vars == <<disk, page_size, pages, faults, reads, first_ret, pc,
          initial_page_num, page_stack, result, yielded, failed, errored,
          ended,
          cursor, field_n, field_result, dec_in, dec_out, call_in, call_out>>

Pending == [tag |-> "Pending"]

ReturnedErr(e) == [tag |-> "Err", err |-> e]

ReturnedNone == [tag |-> "OkNone"]

ReturnedSome(c) == [tag |-> "OkSome", cursor |-> c]

NoCursor == [tag |-> "NoCursor"]

\* FilePager::new, no scanner, no cursor
InitPager ==
    /\ disk \in Files
    /\ page_size \in PageSizes
    /\ pages = <<>>
    /\ faults = 0
    /\ reads = <<>>
    /\ first_ret = <<>>

InitScanner ==
    /\ pc = "noscanner"
    /\ initial_page_num = 0
    /\ page_stack = <<>>
    /\ result = Pending
    /\ yielded = <<>>
    /\ failed = "none"
    /\ errored = FALSE
    /\ ended = "no"

InitCursor ==
    /\ cursor = NoCursor
    /\ field_n = 0
    /\ field_result = Pending

InitDecode ==
    /\ dec_in = Pending
    /\ dec_out = Pending
    /\ call_in = Pending
    /\ call_out = Pending

Init == InitPager /\ InitScanner /\ InitCursor /\ InitDecode

(***************************************************************************)
(* The pager called by a client.                                           *)
(***************************************************************************)
\* the failures the file system may inject into a read_page(n) call
Faults(cache, n) ==
    IF n \in DOMAIN cache \/ faults >= MaxFaults
    THEN {"none"}
    ELSE {"none", "seek", "read"}

Injected(fault) == IF fault = "none" THEN 0 ELSE 1

RECURSIVE Remember(_, _)
\* first_ret after the calls cs
Remember(fr, cs) ==
    IF cs = <<>> THEN fr
    ELSE LET c == Head(cs)
         IN  Remember(IF c.res.ok /\ c.n \notin DOMAIN fr
                      THEN (c.n :> c.res.v) @@ fr
                      ELSE fr,
                      Tail(cs))

ScannerDropped ==
    /\ pc' = "noscanner"
    /\ initial_page_num' = 0
    /\ page_stack' = <<>>
    /\ result' = Pending
    /\ yielded' = <<>>
    /\ failed' = "none"
    /\ errored' = FALSE
    /\ ended' = "no"

CursorDropped ==
    /\ cursor' = NoCursor
    /\ field_n' = 0
    /\ field_result' = Pending

\* pager.read_page(n), made by a client: a scanner or cursor that borrowed
\* the pager is gone by then
ReadPage(n) ==
    /\ pc \in {"noscanner", "idle"}
    /\ \E fault \in Faults(pages, n) :
         LET r == FilePager_read_page(pages, disk, page_size, n, fault)
         IN  /\ pages' = r.pages
             /\ reads' = <<Call(r)>>
             /\ first_ret' = Remember(first_ret, <<Call(r)>>)
             /\ faults' = faults + Injected(fault)
    /\ ScannerDropped
    /\ CursorDropped
    /\ UNCHANGED <<disk, page_size>>
    /\ UNCHANGED decode_vars

(***************************************************************************)
(* The scanner.                                                            *)
(***************************************************************************)
\* Scanner::new (Db::scanner)
NewScanner(root) ==
    /\ pc \in {"noscanner", "idle"}
    /\ pc' = "idle"
    /\ initial_page_num' = root
    /\ page_stack' = <<>>
    /\ result' = Pending
    /\ yielded' = <<>>
    /\ failed' = "none"
    /\ errored' = FALSE
    /\ ended' = "no"
    /\ reads' = <<>>
    /\ UNCHANGED <<disk, page_size, pages, faults, first_ret>>
    /\ UNCHANGED cursor_vars
    /\ UNCHANGED decode_vars

\* next_record is called
CallNextRecord ==
    /\ pc = "idle"
    /\ Len(yielded) < MaxYield
    /\ pc' = "loop"
    /\ result' = Pending
    /\ failed' = "none"
    /\ reads' = <<>>
    /\ UNCHANGED <<disk, page_size, pages, faults, first_ret>>
    /\ UNCHANGED <<initial_page_num, page_stack, yielded, errored, ended>>
    /\ UNCHANGED cursor_vars
    /\ UNCHANGED decode_vars

\* the failures that may be injected into the root read of next_elem
RootFaults ==
    IF page_stack = <<>> THEN Faults(pages, initial_page_num) ELSE {"none"}

NextElem(fault) ==
    Scanner_next_elem(page_stack, pages, disk, page_size, initial_page_num,
                      fault)

IsElem(e, tag) == e.res.ok /\ e.res.v.tag = "Some" /\ e.res.v.v.tag = tag

\* what one iteration of the loop leaves of the pager
PagerAfter(cache, calls, fault1, fault2) ==
    /\ pages' = cache
    /\ reads' = calls
    /\ first_ret' = Remember(first_ret, calls)
    /\ faults' = faults + Injected(fault1) + Injected(fault2)
    /\ UNCHANGED <<disk, page_size>>

\* line 27: next_elem gives a cursor, which is returned
NextRecordCursor ==
    /\ pc = "loop"
    /\ \E fault \in RootFaults :
         \E e \in {NextElem(fault)} :
             /\ IsElem(e, "Cursor")
             /\ page_stack' = e.stack
             /\ result' = ReturnedSome(e.res.v.v.cursor)
             /\ yielded' = Append(yielded, e.res.v.v.cursor)
             /\ failed' = e.failed
             /\ PagerAfter(e.pages, e.reads, fault, "none")
    /\ pc' = "idle"
    /\ UNCHANGED <<initial_page_num, errored, ended>>
    /\ UNCHANGED cursor_vars
    /\ UNCHANGED decode_vars

\* lines 28-34: next_elem gives a page pointer, the page is read and pushed
NextRecordPagePointer ==
    /\ pc = "loop"
    /\ \E fault \in RootFaults :
         \E e \in {NextElem(fault)} :
             /\ IsElem(e, "PagePointer")
             /\ \E fault2 \in Faults(e.pages, e.res.v.v.p) :
                  \E r \in {FilePager_read_page(e.pages, disk, page_size,
                                                 e.res.v.v.p, fault2)} :
                      /\ r.res.ok
                      /\ Len(e.stack) < MaxDepth
                      /\ page_stack' = Append(e.stack, PositionedPage(r.res.v))
                      /\ failed' = e.failed
                      /\ PagerAfter(r.pages, e.reads \o <<Call(r)>>, fault,
                                    fault2)
    /\ UNCHANGED <<pc, initial_page_num, result, yielded, errored, ended>>
    /\ UNCHANGED cursor_vars
    /\ UNCHANGED decode_vars

\* line 29: reading the page of a page pointer fails, the error is returned
NextRecordPagePointerErr ==
    /\ pc = "loop"
    /\ \E fault \in RootFaults :
         \E e \in {NextElem(fault)} :
             /\ IsElem(e, "PagePointer")
             /\ \E fault2 \in Faults(e.pages, e.res.v.v.p) :
                  \E r \in {FilePager_read_page(e.pages, disk, page_size,
                                                 e.res.v.v.p, fault2)} :
                      /\ ~r.res.ok
                      /\ page_stack' = e.stack
                      /\ result' = ReturnedErr(r.res.err)
                      /\ failed' = "read_page"
                      /\ PagerAfter(r.pages, e.reads \o <<Call(r)>>, fault,
                                    fault2)
    /\ pc' = "idle"
    /\ errored' = TRUE
    /\ UNCHANGED ended
    /\ UNCHANGED <<initial_page_num, yielded>>
    /\ UNCHANGED cursor_vars
    /\ UNCHANGED decode_vars

\* lines 35-37 without the test of the depth: the root is popped as well
NextRecordPopRoot ==
    /\ pc = "loop"
    /\ \E fault \in RootFaults :
         \E e \in {NextElem(fault)} :
             /\ e.res.ok /\ e.res.v.tag = "None"
             /\ Len(e.stack) > 0
             /\ page_stack' = SubSeq(e.stack, 1, Len(e.stack) - 1)
             /\ failed' = e.failed
             /\ PagerAfter(e.pages, e.reads, fault, "none")
    /\ UNCHANGED <<pc, initial_page_num, result, yielded, errored, ended>>
    /\ UNCHANGED cursor_vars
    /\ UNCHANGED decode_vars

\* lines 35-37: the top page is exhausted and is not the root: it is popped
NextRecordPop ==
    /\ pc = "loop"
    /\ \E fault \in RootFaults :
         \E e \in {NextElem(fault)} :
             /\ e.res.ok /\ e.res.v.tag = "None"
             /\ Len(e.stack) > 1
             /\ page_stack' = SubSeq(e.stack, 1, Len(e.stack) - 1)
             /\ failed' = e.failed
             /\ PagerAfter(e.pages, e.reads, fault, "none")
    /\ UNCHANGED <<pc, initial_page_num, result, yielded, errored, ended>>
    /\ UNCHANGED cursor_vars
    /\ UNCHANGED decode_vars

\* line 38 with the page stack cleared: the next call starts over
NextRecordNoneReset ==
    /\ pc = "loop"
    /\ \E fault \in RootFaults :
         \E e \in {NextElem(fault)} :
             /\ e.res.ok /\ e.res.v.tag = "None"
             /\ ~(Len(e.stack) > 1)
             /\ page_stack' = <<>>
             /\ result' = ReturnedNone
             /\ failed' = e.failed
             /\ PagerAfter(e.pages, e.reads, fault, "none")
    /\ pc' = "idle"
    /\ ended' = (IF ended = "no" THEN "once" ELSE "again")
    /\ UNCHANGED <<initial_page_num, yielded, errored>>
    /\ UNCHANGED cursor_vars
    /\ UNCHANGED decode_vars

\* line 38: the root is exhausted, None is returned
NextRecordNone ==
    /\ pc = "loop"
    /\ \E fault \in RootFaults :
         \E e \in {NextElem(fault)} :
             /\ e.res.ok /\ e.res.v.tag = "None"
             /\ ~(Len(e.stack) > 1)
             /\ page_stack' = e.stack
             /\ result' = ReturnedNone
             /\ failed' = e.failed
             /\ PagerAfter(e.pages, e.reads, fault, "none")
    /\ pc' = "idle"
    /\ ended' = (IF ended = "no" THEN "once" ELSE "again")
    /\ UNCHANGED <<initial_page_num, yielded, errored>>
    /\ UNCHANGED cursor_vars
    /\ UNCHANGED decode_vars

\* line 39 with the error swallowed: the failure is reported as the end of
\* the traversal
NextRecordErrAsNone ==
    /\ pc = "loop"
    /\ \E fault \in RootFaults :
         \E e \in {NextElem(fault)} :
             /\ ~e.res.ok
             /\ page_stack' = e.stack
             /\ result' = ReturnedNone
             /\ failed' = e.failed
             /\ PagerAfter(e.pages, e.reads, fault, "none")
    /\ pc' = "idle"
    /\ errored' = TRUE
    /\ UNCHANGED ended
    /\ UNCHANGED <<initial_page_num, yielded>>
    /\ UNCHANGED cursor_vars
    /\ UNCHANGED decode_vars

\* line 39: next_elem fails, the error is returned
NextRecordErr ==
    /\ pc = "loop"
    /\ \E fault \in RootFaults :
         \E e \in {NextElem(fault)} :
             /\ ~e.res.ok
             /\ page_stack' = e.stack
             /\ result' = ReturnedErr(e.res.err)
             /\ failed' = e.failed
             /\ PagerAfter(e.pages, e.reads, fault, "none")
    /\ pc' = "idle"
    /\ errored' = TRUE
    /\ UNCHANGED ended
    /\ UNCHANGED <<initial_page_num, yielded>>
    /\ UNCHANGED cursor_vars
    /\ UNCHANGED decode_vars

\* one iteration of the loop of next_record
NextRecordStep ==
    \/ NextRecordCursor
    \/ NextRecordPagePointer
    \/ NextRecordPagePointerErr
    \/ NextRecordPop
    \/ NextRecordNone
    \/ NextRecordErr

Next ==
    \/ \E n \in PageNums : ReadPage(n)
    \/ \E root \in PageNums : NewScanner(root)
    \/ CallNextRecord
    \/ NextRecordCursor
    \/ NextRecordPagePointer
    \/ NextRecordPagePointerErr
    \/ NextRecordPop
    \/ NextRecordNone
    \/ NextRecordErr

(***************************************************************************)
(* cursor.rs: a cursor names a cell of a page and reads it through the     *)
(* pager.                                                                  *)
(***************************************************************************)
Cursor_new(header, page_index, page_cell) ==
    [tag |-> "Cursor", header |-> header, page_index |-> page_index,
     page_cell |-> page_cell]

\* Cursor::field decoding at the start of the payload, not at the field's offset
Cursor_field_at_start(self, cache, file, size, n, fault) ==
    IF ~(n < Len(self.header.fields))
    THEN [ret |-> None, pages |-> cache, reads |-> <<>>]
    ELSE
    LET record_field == self.header.fields[n + 1]
        r == FilePager_read_page(cache, file, size, self.page_index, fault)
    IN  IF r.res.ok /\ r.res.v.header.variant = "TableLeafPageHeader"
        THEN IF self.page_cell < Len(r.res.v.cells)
             THEN [ret |-> RecordFieldType_value(
                               record_field.field_type,
                               r.res.v.cells[self.page_cell + 1].payload,
                               0),
                   pages |-> r.pages, reads |-> <<Call(r)>>]
             ELSE [ret |-> Panic, pages |-> r.pages, reads |-> <<Call(r)>>]
        ELSE [ret |-> None, pages |-> r.pages, reads |-> <<Call(r)>>]

\* Cursor::field: what is returned, the cache afterwards, the pager calls
Cursor_field(self, cache, file, size, n, fault) ==
    IF ~(n < Len(self.header.fields))
    THEN [ret |-> None, pages |-> cache, reads |-> <<>>]
    ELSE
    LET record_field == self.header.fields[n + 1]
        r == FilePager_read_page(cache, file, size, self.page_index, fault)
    IN  IF r.res.ok /\ r.res.v.header.variant = "TableLeafPageHeader"
        THEN IF self.page_cell < Len(r.res.v.cells)
             THEN [ret |-> RecordFieldType_value(
                               record_field.field_type,
                               r.res.v.cells[self.page_cell + 1].payload,
                               record_field.offset),
                   pages |-> r.pages, reads |-> <<Call(r)>>]
             ELSE [ret |-> Panic, pages |-> r.pages, reads |-> <<Call(r)>>]
        ELSE [ret |-> None, pages |-> r.pages, reads |-> <<Call(r)>>]

\* a cursor is made as cursor_field_tests makes it: the page is read, the
\* record header of one of its cells is parsed, and Cursor::new is called
CursorNew(page_index, page_cell) ==
    /\ pc = "noscanner"
    /\ \E fault \in Faults(pages, page_index) :
         LET r == FilePager_read_page(pages, disk, page_size, page_index, fault)
         IN  /\ r.res.ok
             /\ r.res.v.header.variant = "TableLeafPageHeader"
             /\ page_cell < Len(r.res.v.cells)
             /\ LET header == RecordHeader_parse(
                                  r.res.v.cells[page_cell + 1].payload)
                IN  /\ header.ok
                    /\ cursor' = Cursor_new(header.v, page_index, page_cell)
             /\ pages' = r.pages
             /\ reads' = <<Call(r)>>
             /\ first_ret' = Remember(first_ret, <<Call(r)>>)
             /\ faults' = faults + Injected(fault)
    /\ field_n' = 0
    /\ field_result' = Pending
    /\ UNCHANGED <<disk, page_size>>
    /\ UNCHANGED scanner_vars
    /\ UNCHANGED decode_vars

\* cursor.field(n)
CursorField(n) ==
    /\ cursor.tag = "Cursor"
    /\ \E fault \in Faults(pages, cursor.page_index) :
         LET f == Cursor_field(cursor, pages, disk, page_size, n, fault)
         IN  /\ field_result' = f.ret
             /\ pages' = f.pages
             /\ reads' = f.reads
             /\ first_ret' = Remember(first_ret, f.reads)
             /\ faults' = faults + Injected(fault)
    /\ field_n' = n
    /\ UNCHANGED cursor
    /\ UNCHANGED <<disk, page_size>>
    /\ UNCHANGED scanner_vars
    /\ UNCHANGED decode_vars

NextCursor ==
    \/ \E n \in PageNums : ReadPage(n)
    \/ \E n \in PageNums, cell \in 0..MaxField : CursorNew(n, cell)
    \/ \E n \in 0..MaxField : CursorField(n)

SpecCursor == Init /\ [][NextCursor]_vars

(***************************************************************************)
(* The field decoder on its own: RecordFieldType::value applied to every   *)
(* field type, payload and offset within the bounds.                       *)
(***************************************************************************)
ByteSamples == {0, 1, 97, 128, 255}

RECURSIVE BytesUpTo(_)
\* the byte strings over ByteSamples of length at most n
BytesUpTo(n) ==
    IF n = 0 THEN {<<>>}
    ELSE LET shorter == BytesUpTo(n - 1)
         IN  shorter \cup {Append(b, x) : b \in shorter, x \in ByteSamples}

FieldTypes ==
    {FieldType(t) : t \in {"Null", "I8", "I16", "I24", "I32", "I48", "I64",
                           "Float", "Zero", "One"}}
    \cup {SizedFieldType(t, len) : t \in {"Blob", "String"},
                                   len \in 0..MaxPayloadLen}

DecodeInputs ==
    [field_type : FieldTypes, payload : BytesUpTo(MaxPayloadLen),
     offset : 0..(MaxPayloadLen + 1)]

\* field_type.value(payload, offset)
Decode ==
    /\ dec_out = Pending
    /\ dec_out' = RecordFieldType_value(dec_in.field_type, dec_in.payload,
                                        dec_in.offset)
    /\ UNCHANGED <<dec_in, call_in, call_out>>
    /\ UNCHANGED pager_vars
    /\ UNCHANGED scanner_vars
    /\ UNCHANGED cursor_vars

NextDecode == Decode

\* one file is enough: the decoder does not touch the pager
InitDecoder ==
    /\ InitPager /\ disk = FileLeaf /\ page_size = 512
    /\ InitScanner
    /\ InitCursor
    /\ dec_in \in DecodeInputs
    /\ dec_out = Pending
    /\ call_in = Pending
    /\ call_out = Pending

SpecDecode == InitDecoder /\ [][NextDecode]_vars

(***************************************************************************)
(* The functions of the codec called on their own, once each, on inputs    *)
(* drawn from bounded sets.                                                *)
(***************************************************************************)
\* headers for DbHeader::parse: the prefix and a 16-bit page size, among
\* them 0, 1, every power of two and 65535
DbHeaderWords ==
    {[fn |-> "DbHeader::parse", buffer |-> HEADER_PREFIX \o <<hi, lo>>]
        : hi \in 0..255, lo \in {0, 1, 2, 3, 4, 8, 16, 32, 64, 128, 255}}

\* the prefix and less than two bytes or more than two, a buffer shorter
\* than the prefix, and buffers that do not start with it
DbHeaderOthers ==
    {[fn |-> "DbHeader::parse", buffer |-> b]
        : b \in {HEADER_PREFIX \o <<lo>> : lo \in 0..255}
                \cup {HEADER_PREFIX \o <<hi, lo, 1>>
                        : hi \in {0, 2, 16}, lo \in {0, 1, 3, 8}}
                \cup {<<>>, <<1, 2, 3>>, HEADER_PREFIX,
                      SubSeq(HEADER_PREFIX, 1, 15),
                      <<83, 81, 76, 105, 116, 101, 32, 102, 111, 114, 109, 97,
                        116, 32, 51, 1, 16, 0>>,
                      <<0>> \o HEADER_PREFIX \o <<16, 0>>}}

RECURSIVE ContRuns(_)
\* the strings of at most n bytes that all have the high bit set
ContRuns(n) ==
    IF n = 0 THEN {<<>>}
    ELSE LET shorter == ContRuns(n - 1)
         IN  shorter \cup {Append(b, x) : b \in shorter, x \in {128, 255}}

\* buffers for read_varint_at: a run of continuation bytes, then nothing or
\* a last byte, then nothing or one more byte
VarintBuffers ==
    {run \o rest : run \in ContRuns(MaxCont),
                   rest \in {<<>>, <<0>>, <<1>>, <<127>>, <<1, 255>>,
                             <<127, 128>>}}

\* offsets: the first bytes, and the greatest usize
VarintInputs ==
    {[fn |-> "read_varint_at", buffer |-> b, offset |-> o, encodes |-> None]
        : b \in VarintBuffers, o \in {0, 1, 2, -1}}

\* i64 values: zeros, then one byte h, then bytes f, for every place of h;
\* they hold the least and the greatest value of each length of encoding
ValueSamples ==
    {from_be_bytes(SubSeq(<<0, 0, 0, 0, 0, 0, 0>>, 1, at - 1) \o <<h>>
                   \o SubSeq(<<f, f, f, f, f, f, f>>, 1, 8 - at))
        : at \in 1..8,
          h \in {0, 1, 2, 3, 4, 7, 8, 15, 16, 31, 32, 63, 64, 127, 128, 255},
          f \in {0, 128, 255}}

\* the encoding of a value, alone or with bytes after it
EncodedInputs ==
    {[fn |-> "read_varint_at", buffer |-> varint_encode(x) \o rest,
      offset |-> 0, encodes |-> x]
        : x \in ValueSamples, rest \in {<<>>, <<0>>, <<255>>, <<128, 1>>}}

\* buffers for the integer readers: a first byte, the same byte repeated,
\* a last byte
ReaderBuffers ==
    {<<>>}
    \cup {<<h>> : h \in {0, 1, 127, 128, 255}}
    \cup {<<h>> \o fill \o <<l>>
            : h \in {0, 1, 127, 128, 255},
              fill \in UNION {{[i \in 1..n |-> 0], [i \in 1..n |-> 255]}
                              : n \in 0..(MaxInput - 2)},
              l \in {0, 1, 128, 255}}

\* offsets: in the buffer, at its end and past it, and the greatest values
\* of usize
ReaderInputs ==
    {[fn |-> "read_int_at", width |-> w, input |-> b, offset |-> o]
        : w \in {8, 16, 24, 32, 48, 64}, b \in ReaderBuffers,
          o \in 0..(MaxInput + 1) \cup {-1, -8, -9}}


CallDbHeaderParse ==
    /\ call_out = Pending
    /\ call_in.fn = "DbHeader::parse"
    /\ call_out' = DbHeader_parse(call_in.buffer)
    /\ UNCHANGED <<dec_in, dec_out, call_in>>
    /\ UNCHANGED pager_vars
    /\ UNCHANGED scanner_vars
    /\ UNCHANGED cursor_vars

CallReadVarintAt ==
    /\ call_out = Pending
    /\ call_in.fn = "read_varint_at"
    /\ call_out' = read_varint_at(call_in.buffer, call_in.offset)
    /\ UNCHANGED <<dec_in, dec_out, call_in>>
    /\ UNCHANGED pager_vars
    /\ UNCHANGED scanner_vars
    /\ UNCHANGED cursor_vars

CallReadIntAt ==
    /\ call_out = Pending
    /\ call_in.fn = "read_int_at"
    /\ call_out' = read_int_at(call_in.width, call_in.input, call_in.offset)
    /\ UNCHANGED <<dec_in, dec_out, call_in>>
    /\ UNCHANGED pager_vars
    /\ UNCHANGED scanner_vars
    /\ UNCHANGED cursor_vars

RECURSIVE TypeBytes(_)
\* the strings of at most n bytes of serial types; 129 starts a varint of
\* two or more bytes
TypeBytes(n) ==
    IF n = 0 THEN {<<>>}
    ELSE LET shorter == TypeBytes(n - 1)
         IN  shorter
             \cup {Append(b, x) : b \in shorter, x \in {0, 1, 6, 10, 13, 14, 129}}

\* record buffers: one byte of header length, serial types, payload bytes
RecordBuffers ==
    {<<h>> \o types \o SubSeq(<<7, 7, 7, 7, 7, 7, 7, 7>>, 1, n)
        : h \in 0..(MaxTypes + 2), types \in TypeBytes(MaxTypes),
          n \in 0..MaxRecordPayload}

\* record buffers whose header length takes more than one byte: lengths 1
\* and 2 in two bytes, 3 in two bytes with a field, a header of three fields
\* in four bytes, the lengths 2^57, -1 and another negative one in nine
\* bytes, and headers with the serial type -1
LongRecordBuffers ==
    {<<>>, <<128, 1>>, <<128, 2>>, <<128, 3, 1, 7>>, <<129, 0>>,
     <<5, 6, 129, 1, 14, 7>>,
     <<129, 128, 128, 128, 128, 128, 128, 128, 0>>,
     <<255, 255, 255, 255, 255, 255, 255, 255, 255>>,
     <<255, 255, 255, 255, 255, 255, 255, 255, 255, 1, 7>>,
     <<192, 128, 128, 128, 128, 128, 128, 128, 3, 1, 1, 1>>,
     <<10, 255, 255, 255, 255, 255, 255, 255, 255, 255>>,
     <<11, 1, 255, 255, 255, 255, 255, 255, 255, 255, 255, 7>>}

RecordInputs ==
    {[fn |-> "RecordHeader::parse", buffer |-> b]
        : b \in RecordBuffers \cup LongRecordBuffers}

CallRecordHeaderParse ==
    /\ call_out = Pending
    /\ call_in.fn = "RecordHeader::parse"
    /\ call_out' = RecordHeader_parse(call_in.buffer)
    /\ UNCHANGED <<dec_in, dec_out, call_in>>
    /\ UNCHANGED pager_vars
    /\ UNCHANGED scanner_vars
    /\ UNCHANGED cursor_vars

\* discriminants: the small ones, the ends of the range the model holds,
\* and negative ones of all 64 bits
DiscriminantInputs ==
    {[fn |-> "RecordFieldType::parse", discriminant |-> d]
        : d \in {as_i64(n) : n \in (-MaxDiscriminant)..MaxDiscriminant}
                \cup {as_i64(2147483647), as_i64(2147483646),
                      as_i64(-2147483647),
                      from_be_bytes(<<128, 0, 0, 0, 0, 0, 0, 0>>),
                      from_be_bytes(<<128, 0, 0, 0, 0, 0, 0, 12>>),
                      from_be_bytes(<<255, 255, 255, 254, 0, 0, 0, 13>>),
                      from_be_bytes(<<255, 0, 0, 0, 0, 0, 0, 1>>)}}

\* RecordFieldType::parse(discriminant) and, when it succeeds, size()
CallFieldTypeParse ==
    /\ call_out = Pending
    /\ call_in.fn = "RecordFieldType::parse"
    /\ \E r \in {RecordFieldType_parse(call_in.discriminant)} :
          call_out' = [parsed |-> r,
                       size |-> IF r.ok THEN Some(RecordFieldType_size(r.v))
                                ELSE None]
    /\ UNCHANGED <<dec_in, dec_out, call_in>>
    /\ UNCHANGED pager_vars
    /\ UNCHANGED scanner_vars
    /\ UNCHANGED cursor_vars

NextCodec ==
    \/ CallDbHeaderParse
    \/ CallReadVarintAt
    \/ CallReadIntAt
    \/ CallRecordHeaderParse
    \/ CallFieldTypeParse

InitCodec ==
    /\ InitPager /\ disk = FileLeaf /\ page_size = 512
    /\ InitScanner
    /\ InitCursor
    /\ dec_in = Pending
    /\ dec_out = Pending
    /\ \/ call_in \in DbHeaderWords
       \/ call_in \in DbHeaderOthers
       \/ call_in \in VarintInputs
       \/ call_in \in EncodedInputs
       \/ call_in \in ReaderInputs
       \/ call_in \in RecordInputs
       \/ call_in \in DiscriminantInputs
    /\ call_out = Pending

SpecCodec == InitCodec /\ [][NextCodec]_vars

(***************************************************************************)
(* The decoders of a page and the positioned page called on their own, on  *)
(* inputs drawn from bounded sets.                                         *)
(***************************************************************************)
WordSamples == {<<0, 0>>, <<0, 12>>, <<255, 255>>}

\* 14 bytes that start with a page header: the tag, three words, the
\* fragmented bytes count, the rightmost pointer, two more bytes
HeaderImages ==
    {<<t>> \o w1 \o w2 \o w3 \o <<fr>> \o rp \o <<9, 9>>
        : t \in {0, 5, 10, 13, 255}, w1 \in WordSamples, w2 \in WordSamples,
          w3 \in WordSamples, fr \in {0, 7},
          rp \in {<<0, 0, 0, 2>>, <<1, 2, 3, 4>>, <<255, 255, 255, 255>>}}

\* the prefixes of n bytes of the images
PageHeaderInputs(n) ==
    {[fn |-> "PageHeader::parse", buffer |-> SubSeq(h, 1, n)]
        : h \in HeaderImages}

CallPageHeaderParse ==
    /\ call_out = Pending
    /\ call_in.fn = "PageHeader::parse"
    /\ call_out' = PageHeader_parse(call_in.buffer)
    /\ UNCHANGED <<dec_in, dec_out, call_in>>
    /\ UNCHANGED pager_vars
    /\ UNCHANGED scanner_vars
    /\ UNCHANGED cursor_vars

\* varints for the size of a cell: 0 to 4, 127, 128, 2 and 3 in more bytes
\* than needed, -1, 2^62
CellVarints ==
    {<<0>>, <<1>>, <<2>>, <<3>>, <<4>>, <<127>>, <<129, 0>>, <<128, 2>>,
     <<128, 128, 128, 128, 128, 128, 128, 128, 3>>,
     <<255, 255, 255, 255, 255, 255, 255, 255, 255>>,
     <<192, 128, 128, 128, 128, 128, 128, 128, 0>>}

\* a size, a row id and a payload; buffers that end before the row id
LeafCellInputs(size) ==
    {[fn |-> "TableLeafCell::parse", buffer |-> b]
        : b \in {<<>>, <<129>>, size}
                \cup {size \o row_id \o payload
                        : row_id \in {<<1>>, <<129, 0>>},
                          payload \in BytesUpTo(MaxCellPayload)}}

CallTableLeafCellParse ==
    /\ call_out = Pending
    /\ call_in.fn = "TableLeafCell::parse"
    /\ call_out' = TableLeafCell_parse(call_in.buffer)
    /\ UNCHANGED <<dec_in, dec_out, call_in>>
    /\ UNCHANGED pager_vars
    /\ UNCHANGED scanner_vars
    /\ UNCHANGED cursor_vars

\* the 100 bytes of a database header, which start the buffer of page 1
FileHeader ==
    HEADER_PREFIX \o <<16, 0>>
    \o <<0, 0, 0, 0, 0, 0, 0, 0, 0, 0, 0, 0, 0, 0, 0, 0, 0, 0, 0, 0, 0>>
    \o <<0, 0, 0, 0, 0, 0, 0, 0, 0, 0, 0, 0, 0, 0, 0, 0, 0, 0, 0, 0, 0>>
    \o <<0, 0, 0, 0, 0, 0, 0, 0, 0, 0, 0, 0, 0, 0, 0, 0, 0, 0, 0, 0>>
    \o <<0, 0, 0, 0, 0, 0, 0, 0, 0, 0, 0, 0, 0, 0, 0, 0, 0, 0, 0, 0>>

\* raw cell pointers of a page: places in the content buffer in no order,
\* its end, the greatest pointer, and on page 1 pointers below HEADER_SIZE
RawPointers(page_num) ==
    IF page_num = 1
    THEN {99, 100, 116, 120, 124, 65535}
    ELSE {0, 16, 20, 24, 65535}

RECURSIVE PointerWords(_, _)
\* the bytes of at most n cell pointers drawn from raw
PointerWords(raw, n) ==
    IF n = 0 THEN {<<>>}
    ELSE LET shorter == PointerWords(raw, n - 1)
         IN  shorter \cup {w \o <<r \div 256, r % 256>>
                            : w \in shorter, r \in raw}

\* the cells of a page: two leaf cells, two interior cells
CellArea == <<2, 1, 127, 128, 1, 2, 127, 0, 0, 0, 3, 12, 0, 0, 0, 4, 129, 1>>

\* a page: a header that declares count cells, cell pointers, cells or
\* none; pages that end in their header, that have another tag or none
PageImages(page_num) ==
    {<<tag, 0, 0, 0, count, 0, 0, 0>> \o right \o words \o cells
        : tag \in {5, 13}, count \in 0..(MaxPointers + 1),
          right \in {<<0, 0, 0, 7>>},
          words \in PointerWords(RawPointers(page_num), MaxPointers),
          cells \in {<<>>, CellArea}}
    \cup {<<>>, <<12>>, <<13, 0, 0, 0, 1, 0, 0>>, <<5, 0, 0, 0, 0, 0, 0, 0>>,
          <<5, 0, 0, 0, 0, 0, 0, 0, 0, 0>>, <<12, 0, 0, 0, 1, 0, 0, 0, 0, 8>>}

\* the buffer of page 1 starts with the database header; buffers too short
\* for it
PageInputs(page_num) ==
    IF page_num = 1
    THEN {[fn |-> "Page::parse", buffer |-> FileHeader \o b, page_num |-> 1]
            : b \in PageImages(1)}
         \cup {[fn |-> "Page::parse", buffer |-> b, page_num |-> 1]
                 : b \in {<<>>, <<13, 0, 0, 0, 0, 0, 0, 0>>,
                          SubSeq(FileHeader, 1, 99)}}
    ELSE {[fn |-> "Page::parse", buffer |-> b, page_num |-> page_num]
            : b \in PageImages(page_num)}

CallPageParse ==
    /\ call_out = Pending
    /\ call_in.fn = "Page::parse"
    /\ call_out' = Page_parse_bytes(call_in.buffer, call_in.page_num)
    /\ UNCHANGED <<dec_in, dec_out, call_in>>
    /\ UNCHANGED pager_vars
    /\ UNCHANGED scanner_vars
    /\ UNCHANGED cursor_vars

\* positioned pages as the scanner makes them, at cell_num 0: leaf and
\* interior pages of at most MaxCells cells
PositionedInputs ==
    {[fn |-> "PositionedPage", self |-> PositionedPage(page)]
        : page \in {LeafPage(SubSeq(<<Row(1), Row(2), Row(3), Row(4)>>, 1, n))
                        : n \in 0..MaxCells}
                   \cup {InteriorPage(
                             SubSeq(<<TableInteriorCell(2, 10),
                                      TableInteriorCell(3, 20),
                                      TableInteriorCell(4, 30),
                                      TableInteriorCell(5, 40)>>,
                                    1, n), 9)
                           : n \in 0..MaxCells}}

\* the positioned page after the calls made so far, and those calls
Positioned ==
    IF call_out = Pending
    THEN [self |-> call_in.self, calls |-> <<>>]
    ELSE call_out

\* one call, kept with the cell_num it found
Called(op, r) ==
    [self |-> r.self,
     calls |-> Append(Positioned.calls,
                      [op |-> op, before |-> Positioned.self.cell_num,
                       ret |-> r.ret])]

CallNextCell ==
    /\ call_in.fn = "PositionedPage"
    /\ Len(Positioned.calls) < MaxCalls
    /\ call_out' = Called("next_cell", PositionedPage_next_cell(Positioned.self))
    /\ UNCHANGED <<dec_in, dec_out, call_in>>
    /\ UNCHANGED pager_vars
    /\ UNCHANGED scanner_vars
    /\ UNCHANGED cursor_vars

CallNextPagePointer ==
    /\ call_in.fn = "PositionedPage"
    /\ Len(Positioned.calls) < MaxCalls
    /\ call_out' = Called("next_page_pointer",
                          PositionedPage_next_page_pointer(Positioned.self))
    /\ UNCHANGED <<dec_in, dec_out, call_in>>
    /\ UNCHANGED pager_vars
    /\ UNCHANGED scanner_vars
    /\ UNCHANGED cursor_vars

NextPaging ==
    \/ CallPageHeaderParse
    \/ CallTableLeafCellParse
    \/ CallPageParse
    \/ CallNextCell
    \/ CallNextPagePointer

InitPaging ==
    /\ InitPager /\ disk = FileLeaf /\ page_size = 512
    /\ InitScanner
    /\ InitCursor
    /\ dec_in = Pending
    /\ dec_out = Pending
    /\ \/ \E n \in 0..MaxHeaderLen : call_in \in PageHeaderInputs(n)
       \/ \E size \in CellVarints : call_in \in LeafCellInputs(size)
       \/ \E page_num \in {1, 2} : call_in \in PageInputs(page_num)
       \/ call_in \in PositionedInputs
    /\ call_out = Pending

SpecPaging == InitPaging /\ [][NextPaging]_vars

\* every raw pointer, read with the offset of page 1 or of another page
PointerInputs(ptr_offset) ==
    {[fn |-> "Page::parse_cell_pointers", buffer |-> <<hi, lo>>, n |-> 1,
      ptr_offset |-> ptr_offset]
        : hi \in 0..255, lo \in 0..255}

CallParseCellPointers ==
    /\ call_out = Pending
    /\ call_in.fn = "Page::parse_cell_pointers"
    /\ call_out' = Page_parse_cell_pointers(call_in.buffer, call_in.n,
                                            call_in.ptr_offset)
    /\ UNCHANGED <<dec_in, dec_out, call_in>>
    /\ UNCHANGED pager_vars
    /\ UNCHANGED scanner_vars
    /\ UNCHANGED cursor_vars

NextPointers == CallParseCellPointers

InitPointers ==
    /\ InitPager /\ disk = FileLeaf /\ page_size = 512
    /\ InitScanner
    /\ InitCursor
    /\ dec_in = Pending
    /\ dec_out = Pending
    /\ \E ptr_offset \in {0, HEADER_SIZE} : call_in \in PointerInputs(ptr_offset)
    /\ call_out = Pending

SpecPointers == InitPointers /\ [][NextPointers]_vars

Spec == Init /\ [][Next]_vars

\* next_record runs to completion: an iteration that can be made is made
SpecFair == Spec /\ WF_vars(NextRecordStep)


(***************************************************************************)
(* The tree of table pages a file holds, read off the file itself.         *)
(***************************************************************************)
\* what page n of the file decodes to when nothing fails
PageOf(n) == FilePager_load_page(disk, page_size, n, "none").res

IsInterior(page) == page.header.variant = "TableInteriorPageHeader"

\* the pages an interior page points to
Children(page) ==
    IF IsInterior(page)
    THEN {page.cells[i].left_child_page : i \in 1..Len(page.cells)}
         \cup {page.header.rightmost_pointer}
    ELSE {}

RECURSIVE TreeBelow(_, _)
\* below page n no page is reachable from itself and every page loads and
\* decodes; path holds the pages from the root down to n
TreeBelow(n, path) ==
    /\ n \notin path
    /\ PageOf(n).ok
    /\ \A c \in Children(PageOf(n).v) : TreeBelow(c, path \cup {n})

\* the pages under root form a finite tree in which every page loads
IsTree(root) == TreeBelow(root, {})

RECURSIVE LeafRecords(_)
RECURSIVE CellRecords(_, _)
\* the payloads of the leaf cells of the tree under page n, left to right and
\* depth first (for a tree)
LeafRecords(n) ==
    LET page == PageOf(n).v
    IN  IF IsInterior(page)
        THEN CellRecords(page, 1) \o LeafRecords(page.header.rightmost_pointer)
        ELSE [i \in 1..Len(page.cells) |-> page.cells[i].payload]

CellRecords(page, i) ==
    IF i > Len(page.cells) THEN <<>>
    ELSE LeafRecords(page.cells[i].left_child_page) \o CellRecords(page, i + 1)

\* the place of a payload in the depth-first order (0: not a record of the tree)
Place(payload, records) ==
    IF \E i \in 1..Len(records) : records[i] = payload
    THEN CHOOSE i \in 1..Len(records) : records[i] = payload
    ELSE 0

\* a live scanner over a tree whose calls have all succeeded so far
ScanningTree ==
    /\ pc \in {"idle", "loop"}
    /\ IsTree(initial_page_num)
    /\ ~errored

(***************************************************************************)
(* C1: within one scanner over a finite tree of table pages whose pages    *)
(* all load, records are yielded in left-to-right depth-first order: a     *)
(* record never follows a record that comes after it in that order (all    *)
(* of subtree i before subtree i+1, those before the rightmost subtree,    *)
(* and cell order within a leaf).                                          *)
(***************************************************************************)
C1_DepthFirstOrder ==
    ScanningTree =>
        LET records == LeafRecords(initial_page_num)
        IN  \A j \in 1..Len(yielded) :
                /\ Place(yielded[j].payload, records) > 0
                /\ \A k \in 1..(j - 1) :
                       Place(yielded[k].payload, records)
                           <= Place(yielded[j].payload, records)

(***************************************************************************)
(* C2: for a finite tree of table pages, the cursors returned up to the    *)
(* first None are exactly one per leaf cell reachable from the root: none  *)
(* is yielded twice, and when None is returned none has been missed.       *)
(***************************************************************************)
C2_ExactlyOnce ==
    ScanningTree =>
        LET records == LeafRecords(initial_page_num)
        IN  /\ \A j, k \in 1..Len(yielded) :
                   j # k => yielded[j].payload # yielded[k].payload
            /\ result = ReturnedNone =>
                   [j \in 1..Len(yielded) |-> yielded[j].payload] = records

(***************************************************************************)
(* C3: over a finite tree of table pages in which every page loads and     *)
(* decodes, every call of next_record terminates.                          *)
(***************************************************************************)
C3_CallTerminates ==
    (pc = "loop" /\ IsTree(initial_page_num)) ~> (pc = "idle")

(***************************************************************************)
(* C4: reading a page number that is in the cache returns the page that    *)
(* the first read of that number returned, and makes no seek and no read   *)
(* on the backing file.                                                    *)
(***************************************************************************)
C4_CacheHit ==
    [][\A i \in 1..Len(reads') :
           reads'[i].n \in DOMAIN pages =>
               /\ reads'[i].io = <<>>
               /\ reads'[i].res = Ok(pages[reads'[i].n])
               /\ reads'[i].n \in DOMAIN first_ret
               /\ reads'[i].res.v = first_ret[reads'[i].n]]_vars

\* a read_page call was answered from the cache
C4_Witness ==
    \E i \in 1..Len(reads) : reads[i].res.ok /\ reads[i].io = <<>>

(***************************************************************************)
(* C5: a cache entry is never removed and never changes; the cache holds   *)
(* an entry for n exactly when an earlier read_page(n) succeeded, and it   *)
(* is the page that call returned; one successful read_page(n) on a fresh  *)
(* pager leaves exactly the entry n, equal to the returned page.           *)
(***************************************************************************)
C5_CacheStable ==
    /\ [](/\ DOMAIN pages = DOMAIN first_ret
          /\ \A n \in DOMAIN pages : pages[n] = first_ret[n])
    /\ [][\A n \in DOMAIN pages :
              n \in DOMAIN pages' /\ pages'[n] = pages[n]]_vars
    /\ [][\A n \in PageNums :
              (pages = <<>> /\ ReadPage(n) /\ reads'[1].res.ok) =>
                  (DOMAIN pages' = {n} /\ pages'[n] = reads'[1].res.v)]_vars

\* several scanners and clients have filled the cache
C5_Witness ==
    /\ pc = "idle"
    /\ Cardinality(DOMAIN pages) >= 3
    /\ \E i \in 1..Len(reads) : reads[i].res.ok

(***************************************************************************)
(* C6: when loading page n fails on a cache miss, read_page(n) returns the *)
(* error of the failing step (seek, read or decode), inserts nothing and   *)
(* leaves every cache entry as it was; and every read_page(n) for a page   *)
(* not in the cache starts a load, so a later call tries again.            *)
(***************************************************************************)
\* the error a failed load of page n must report, given the file operations
LoadError(n, io) ==
    IF Len(io) = 1 THEN [msg |-> "seek to page start"]
    ELSE IF io[1].offset + page_size <= file_len(disk, page_size)
            /\ ~Page_parse(bytes_at(disk, page_size, io[1].offset), n).ok
    THEN Page_parse(bytes_at(disk, page_size, io[1].offset), n).err
    ELSE [msg |-> "read page"]

C6_FailedLoad ==
    [][\A i \in 1..Len(reads') :
           /\ ~reads'[i].res.ok =>
                  /\ reads'[i].n \notin DOMAIN pages'
                  /\ reads'[i].io # <<>>
                  /\ reads'[i].res.err \in
                         {[msg |-> "seek to page start"], [msg |-> "read page"],
                          LoadError(reads'[i].n, reads'[i].io)}
                  /\ \A m \in DOMAIN pages :
                         m \in DOMAIN pages' /\ pages'[m] = pages[m]
           /\ (/\ reads'[i].n \notin DOMAIN pages
               /\ \A k \in 1..(i - 1) :
                      reads'[k].n # reads'[i].n \/ ~reads'[k].res.ok) =>
                  /\ reads'[i].io # <<>>
                  /\ reads'[i].io[1].op = "seek"]_vars

\* a load failed while the cache held other pages
C6_Witness ==
    /\ pages # <<>>
    /\ \E i \in 1..Len(reads) :
           ~reads[i].res.ok /\ reads[i].n \notin DOMAIN pages

BadRecordNext ==
    /\ page_stack # <<>>
    /\ LET top == page_stack[Len(page_stack)]
       IN  /\ ~IsInterior(top.page)
           /\ top.cell_num < Len(top.page.cells)
           /\ top.page.cells[top.cell_num + 1].variant = "TableLeaf"
           /\ ~RecordHeader_parse(top.page.cells[top.cell_num + 1].payload).ok

\* the page stack when the failing step starts: current_page has pushed
\* the root if the stack was empty and the root loaded
StackBefore ==
    IF page_stack = <<>> /\ Len(reads') > 0 /\ reads'[1].res.ok
    THEN <<PositionedPage(reads'[1].res.v)>>
    ELSE page_stack

StackKept ==
    /\ Len(page_stack') = Len(StackBefore)
    /\ \A i \in 1..Len(StackBefore) : page_stack'[i].page = StackBefore[i].page

C8_ErrorSurfaced ==
    [][pc = "loop" =>
          /\ (\E i \in 1..Len(reads') : ~reads'[i].res.ok) =>
                 /\ result' = ReturnedErr(reads'[Len(reads')].res.err)
                 /\ pc' = "idle"
                 /\ StackKept
          /\ BadRecordNext =>
                 /\ result' =
                        ReturnedErr(
                            RecordHeader_parse(
                                page_stack[Len(page_stack)].page.cells[
                                    page_stack[Len(page_stack)].cell_num + 1
                                ].payload).err)
                 /\ pc' = "idle"
                 /\ StackKept]_vars

\* next_record returned the error of a bad record two pages down
C8_Witness ==
    /\ result.tag = "Err"
    /\ failed = "RecordHeader_parse"
    /\ Len(page_stack) = 2

(***************************************************************************)
(* C9: Cursor::field(n) returns None when n is at least the number of      *)
(* fields of the cursor's record header; for n in range it returns what    *)
(* the field decoder gives for the n-th field on the cursor's payload at   *)
(* the field's offset; it changes neither the header nor the payload.      *)
(***************************************************************************)
\* the payload of the cell a cursor names
CursorPayload(c, cache) == cache[c.page_index].cells[c.page_cell + 1].payload

C9_Field ==
    /\ [](field_result # Pending =>
            IF field_n >= Len(cursor.header.fields)
            THEN field_result = None
            ELSE field_result =
                     RecordFieldType_value(
                         cursor.header.fields[field_n + 1].field_type,
                         CursorPayload(cursor, pages),
                         cursor.header.fields[field_n + 1].offset))
    /\ [][\A n \in 0..MaxField :
              CursorField(n) =>
                  /\ cursor' = cursor
                  /\ CursorPayload(cursor', pages') = CursorPayload(cursor, pages)]_vars

\* the second field of a record of two fields was decoded
C9_Witness ==
    /\ cursor.tag = "Cursor"
    /\ Len(cursor.header.fields) = 2
    /\ field_n = 1
    /\ field_result = Some(ValueInt(as_i64(7)))

(***************************************************************************)
(* C10: decoding a field of type Zero yields Value::Int(0) and decoding a  *)
(* field of type One yields Value::Int(1), whatever the payload and the    *)
(* offset.                                                                 *)
(***************************************************************************)
C10_ZeroOne ==
    dec_out # Pending =>
        /\ dec_in.field_type.tag = "Zero" => dec_out = Some(ValueInt(as_i64(0)))
        /\ dec_in.field_type.tag = "One" => dec_out = Some(ValueInt(as_i64(1)))

(***************************************************************************)
(* C11: decoding a String(len) field whose len payload bytes are not valid *)
(* UTF-8 gives an error outcome: it neither aborts the program nor yields  *)
(* a value.                                                                *)
(***************************************************************************)
C11_InvalidUtf8 ==
    (/\ dec_out # Pending
     /\ dec_in.field_type.tag = "String"
     /\ SliceInRange(dec_in.payload, dec_in.offset, dec_in.field_type.len)
     /\ ~IsUtf8(SubSeq(dec_in.payload, dec_in.offset + 1,
                       dec_in.offset + dec_in.field_type.len)))
    => dec_out.tag \notin {"Panic", "Some", "None"}

\* the u16 at offset 16 of the header call_in holds, as DbHeader::parse reads it
C12_Raw == read_be_word_at(call_in.buffer, HEADER_PAGE_SIZE_OFFSET)[2]

C12_Allowed == {512, 1024, 2048, 4096, 8192, 16384, 32768, 65536}

(***************************************************************************)
(* C12: DbHeader::parse succeeds only with a page size among 512, 1024,    *)
(* 2048, 4096, 8192, 16384, 32768 and 65536: a raw value of 1 gives 65536, *)
(* a raw power of two from 512 to 32768 gives itself, every other raw      *)
(* value fails with the page-size error.                                   *)
(***************************************************************************)
C12_PageSize ==
    (/\ call_in.fn = "DbHeader::parse"
     /\ call_out # Pending
     /\ starts_with(call_in.buffer, HEADER_PREFIX))
    => CASE C12_Raw = 1 -> call_out = Ok(DbHeader(65536))
         [] C12_Raw \in C12_Allowed \ {65536} ->
                call_out = Ok(DbHeader(C12_Raw))
         [] OTHER -> /\ ~call_out.ok
                     /\ call_out.err.msg = "page size is not a power of 2"

\* the bytes of call_in.buffer from call_in.offset on
C13_Rest ==
    IF call_in.offset >= 0
    THEN SliceFrom(call_in.buffer, call_in.offset)
    ELSE <<>>

\* the number of bytes a varint at the head of rest takes: up to the first
\* of the first 8 bytes with a clear high bit, 9 at most, the whole of rest
\* when it ends before
C13_Count(rest) ==
    LET stops == {i \in 1..Len(rest) : i <= 8 /\ rest[i] < 128}
    IN  IF stops # {}
        THEN CHOOSE i \in stops : \A j \in stops : i <= j
        ELSE IF Len(rest) < 9 THEN Len(rest) ELSE 9

\* the bits of the value, most significant first: 7 bits of each of the
\* first min(k, 8) bytes, then the 8 bits of the ninth
C13_Bits(rest, k) ==
    [n \in 1..(IF k = 9 THEN 64 ELSE 7 * k) |->
        IF n <= 56
        THEN (rest[((n - 1) \div 7) + 1] \div Pow2(6 - ((n - 1) % 7))) % 2
        ELSE (rest[9] \div Pow2(64 - n)) % 2]

\* the i64 whose 64 bits are the bits given, zeros before them
C13_Value(bits) ==
    LET bit(n) == IF n <= 64 - Len(bits) THEN 0 ELSE bits[n - (64 - Len(bits))]
    IN  from_be_bytes([j \in 1..8 |->
            bit(8 * j - 7) * 128 + bit(8 * j - 6) * 64 + bit(8 * j - 5) * 32
            + bit(8 * j - 4) * 16 + bit(8 * j - 3) * 8 + bit(8 * j - 2) * 4
            + bit(8 * j - 1) * 2 + bit(8 * j)])

(***************************************************************************)
(* C13: read_varint_at returns (0, 0) when the offset is at or past the    *)
(* end of the buffer; otherwise it consumes k bytes, 1 <= k <= 9, stopping *)
(* at the first of the first 8 bytes whose high bit is clear or at the end *)
(* of the buffer, and the value is the concatenation of the low 7 bits of  *)
(* the first min(k, 8) bytes and, when k = 9, the 8 bits of the ninth,     *)
(* read as a 64-bit two's-complement integer: nine or more 0xff bytes give *)
(* (9, -1).                                                                *)
(***************************************************************************)
C13_ReadVarint ==
    (call_in.fn = "read_varint_at" /\ call_out # Pending)
    => /\ C13_Rest = <<>> => call_out = <<0, as_i64(0)>>
       /\ C13_Rest # <<>> =>
              /\ call_out[1] = C13_Count(C13_Rest)
              /\ call_out[1] \in 1..9
              /\ call_out[2] = C13_Value(C13_Bits(C13_Rest, call_out[1]))
       /\ (Len(C13_Rest) >= 9 /\ \A i \in 1..9 : C13_Rest[i] = 255)
              => call_out = <<9, as_i64(-1)>>

\* a varint of nine bytes whose sign bit is set was read
C13_Witness ==
    /\ call_in.fn = "read_varint_at"
    /\ call_in.offset = 1
    /\ Len(call_in.buffer) = 11
    /\ call_out # Pending
    /\ call_out[1] = 9
    /\ is_negative(call_out[2])
    /\ call_out[2] # as_i64(-1)

(***************************************************************************)
(* C14: varint round trip.  Decoding at offset 0 the shortest SQLite       *)
(* varint encoding (1 to 9 bytes) of an i64 returns that value and the     *)
(* length of the encoding, also when more bytes follow the encoding.       *)
(***************************************************************************)
C14_RoundTrip ==
    (/\ call_in.fn = "read_varint_at"
     /\ call_in.encodes # None
     /\ call_out # Pending)
    => /\ call_out = <<Len(varint_encode(call_in.encodes)), call_in.encodes>>
       /\ call_out[1] \in 1..9

\* a negative value, encoded in 9 bytes and followed by two bytes, was decoded
C14_Witness ==
    /\ call_in.fn = "read_varint_at"
    /\ call_in.encodes # None
    /\ is_negative(call_in.encodes)
    /\ Len(call_in.buffer) = 11
    /\ call_out # Pending
    /\ call_out[1] = 9

\* the number of bytes of call_in.input from call_in.offset on
C15_Remaining ==
    IF call_in.offset >= 0 /\ call_in.offset <= Len(call_in.input)
    THEN Len(call_in.input) - call_in.offset
    ELSE 0

\* the two's-complement value of big-endian bytes, as an i64
C15_Signed(bytes) ==
    from_be_bytes((IF bytes[1] >= 128
                   THEN [i \in 1..(8 - Len(bytes)) |-> 255]
                   ELSE [i \in 1..(8 - Len(bytes)) |-> 0]) \o bytes)

(***************************************************************************)
(* C15: when at least W/8 bytes remain at the offset, the signed reader of *)
(* width W (8, 16, 24, 32, 48, 64) returns the two's-complement value of   *)
(* those W/8 big-endian bytes sign-extended to i64, the most negative      *)
(* value of the width included.                                            *)
(***************************************************************************)
C15_SignExtend ==
    (/\ call_in.fn = "read_int_at"
     /\ call_out # Pending
     /\ C15_Remaining >= call_in.width \div 8)
    => call_out = C15_Signed(SubSeq(call_in.input, call_in.offset + 1,
                                    call_in.offset + call_in.width \div 8))

\* the most negative 48-bit value was read at the head of a longer buffer
C15_Witness ==
    /\ call_in.fn = "read_int_at"
    /\ call_in.width = 48
    /\ call_in.offset = 0
    /\ call_in.input = <<128, 0, 0, 0, 0, 0, 0, 1>>
    /\ call_out = from_be_bytes(<<255, 255, 128, 0, 0, 0, 0, 0>>)

\* the next smaller width
C16_Smaller(width) ==
    CASE width = 64 -> 48
      [] width = 48 -> 32
      [] width = 32 -> 24
      [] width = 24 -> 16
      [] width = 16 -> 8

(***************************************************************************)
(* C16: for every buffer and offset, a signed reader of width W with fewer *)
(* than W/8 bytes remaining returns what the reader of the next smaller    *)
(* width returns at the same offset, and 0 when no byte remains; no reader *)
(* aborts on short input.                                                  *)
(***************************************************************************)
C16_Fallback ==
    (/\ call_in.fn = "read_int_at"
     /\ call_out # Pending
     /\ C15_Remaining < call_in.width \div 8)
    => /\ call_out.tag = "i64"
       /\ call_in.width > 8 =>
              call_out = read_int_at(C16_Smaller(call_in.width), call_in.input,
                                     call_in.offset)
       /\ C15_Remaining = 0 => call_out = as_i64(0)

\* the header length the record buffer call_in.buffer declares, and the
\* number of bytes of its varint
C17_Declared == read_varint_at(call_in.buffer, 0)

C18_FieldsInside ==
    (/\ call_in.fn = "RecordHeader::parse"
     /\ call_out # Pending
     /\ call_out.ok
     /\ Len(call_out.v.fields) >= 1)
    => LET last == call_out.v.fields[Len(call_out.v.fields)]
       IN  last.offset + RecordFieldType_size(last.field_type)
           <= Len(call_in.buffer)

\* the declared header length is less than the bytes of its varint or more
\* than the length of the buffer
C19_BadLength ==
    LET header_length == C17_Declared[2]
        small == /\ \A i \in 1..4 : header_length.be[i] = 0
                 /\ header_length.be[5] < 128
    IN  \/ header_length.be[1] >= 128
        \/ ~small
        \/ as_int(header_length) < C17_Declared[1]
        \/ as_int(header_length) > Len(call_in.buffer)

(***************************************************************************)
(* C19: RecordHeader::parse fails with the header-length error exactly     *)
(* when the declared header length is less than the number of bytes of its *)
(* own varint or more than the length of the buffer, a negative length     *)
(* included; it then produces no fields.                                   *)
(***************************************************************************)
C19_BadRecordHeader ==
    (call_in.fn = "RecordHeader::parse" /\ call_out # Pending)
    => /\ C19_BadLength =>
              call_out = Err([msg |-> "header length too large",
                              n |-> C17_Declared[2]])
       /\ ~C19_BadLength =>
              (call_out.ok \/ call_out.err.msg # "header length too large")

\* a header length of -1, declared in nine bytes, was refused
C19_Witness ==
    /\ call_in.fn = "RecordHeader::parse"
    /\ Len(call_in.buffer) = 11
    /\ C17_Declared = <<9, as_i64(-1)>>
    /\ call_out # Pending
    /\ ~call_out.ok

\* the row of the table of serial types for the integer n
C20_Table(n) ==
    CASE n = 0 -> <<FieldType("Null"), 0>>
      [] n = 1 -> <<FieldType("I8"), 1>>
      [] n = 2 -> <<FieldType("I16"), 2>>
      [] n = 3 -> <<FieldType("I24"), 3>>
      [] n = 4 -> <<FieldType("I32"), 4>>
      [] n = 5 -> <<FieldType("I48"), 6>>
      [] n = 6 -> <<FieldType("I64"), 8>>
      [] n = 7 -> <<FieldType("Float"), 8>>
      [] n = 8 -> <<FieldType("Zero"), 0>>
      [] n = 9 -> <<FieldType("One"), 0>>
      [] n >= 12 /\ n % 2 = 0 ->
             <<SizedFieldType("Blob", (n - 12) \div 2), (n - 12) \div 2>>
      [] n >= 13 /\ n % 2 = 1 ->
             <<SizedFieldType("String", (n - 13) \div 2), (n - 13) \div 2>>

(***************************************************************************)
(* C20: RecordFieldType::parse maps the discriminants 0..9 to Null, I8,    *)
(* I16, I24, I32, I48, I64, Float, Zero, One, an even n >= 12 to           *)
(* Blob((n-12)/2), an odd n >= 13 to String((n-13)/2), and 10, 11 and      *)
(* every negative discriminant to the unsupported-type error; size() of    *)
(* the result is 0, 1, 2, 3, 4, 6, 8, 8, 0, 0, len, len.                   *)
(***************************************************************************)
C20_SerialTypes ==
    (call_in.fn = "RecordFieldType::parse" /\ call_out # Pending)
    => IF \/ call_in.discriminant.be[1] >= 128
          \/ call_in.discriminant \in {as_i64(10), as_i64(11)}
       THEN /\ call_out.parsed = Err([msg |-> "unsupported field type",
                                      n |-> call_in.discriminant])
            /\ call_out.size = None
       ELSE /\ call_out.parsed = Ok(C20_Table(as_int(call_in.discriminant))[1])
            /\ call_out.size = Some(C20_Table(as_int(call_in.discriminant))[2])

\* the discriminant 5 was parsed to I48, of size 6
C20_Witness ==
    /\ call_in.fn = "RecordFieldType::parse"
    /\ call_in.discriminant = as_i64(5)
    /\ call_out # Pending
    /\ call_out.parsed = Ok(FieldType("I48"))
    /\ call_out.size = Some(6)

\* what a call left when it returned: the outcome, or what the build
\* without overflow checks makes of an overflow
C21_Outcome ==
    IF "tag" \in DOMAIN call_out /\ call_out.tag = "Overflow"
    THEN call_out.release
    ELSE call_out

\* the call returned Ok
C21_Returned == "ok" \in DOMAIN C21_Outcome /\ C21_Outcome.ok

\* the buffer of the page without the database header of page 1
C21_Content ==
    SliceFrom(call_in.buffer, IF call_in.page_num = 1 THEN HEADER_SIZE ELSE 0)

(***************************************************************************)
(* C21: for every page that Page::parse returns, the number of cells       *)
(* equals the number of cell pointers, which is at most header.cell_count  *)
(* and less only when the buffer ends before the pointers declared, and    *)
(* cell i is the cell decoded at cell pointer i, whatever the order of the *)
(* pointer offsets.                                                        *)
(***************************************************************************)
C21_CellsFollowPointers ==
    (/\ call_in.fn = "Page::parse"
     /\ call_out # Pending
     /\ C21_Returned)
    => LET page == C21_Outcome.v
           declared == page.header.cell_count
           room == Len(C21_Content) - PageHeader_byte_size(page.header)
       IN  /\ Len(page.cells) = Len(page.cell_pointers)
           /\ Len(page.cell_pointers) <= declared
           /\ Len(page.cell_pointers) < declared => room < 2 * declared
           /\ \A i \in 1..Len(page.cell_pointers) :
                  Ok(page.cells[i])
                  = cell_parsing_fn(page.header.variant,
                                    SliceFrom(C21_Content,
                                              page.cell_pointers[i]))

\* a page of two cells was returned whose second cell lies before the
\* first in the buffer; the cells differ
C21_Witness ==
    /\ call_in.fn = "Page::parse"
    /\ call_out # Pending
    /\ C21_Returned
    /\ Len(C21_Outcome.v.cells) = 2
    /\ C21_Outcome.v.cell_pointers[1] > C21_Outcome.v.cell_pointers[2]
    /\ C21_Outcome.v.cells[1] # C21_Outcome.v.cells[2]

(***************************************************************************)
(* C22: the cell pointer stored for a raw 16-bit pointer is the raw        *)
(* pointer minus 100, computed in 16 bits, on page 1 (ptr_offset 100) and  *)
(* the raw pointer itself on another page (ptr_offset 0), for every raw    *)
(* pointer from 0 to 65535.                                                *)
(***************************************************************************)
C22_StoredPointer ==
    (/\ call_in.fn = "Page::parse_cell_pointers"
     /\ call_out # Pending)
    => LET raw == call_in.buffer[1] * 256 + call_in.buffer[2]
       IN  call_out = Vec(<<(raw - call_in.ptr_offset) % 65536>>)

(***************************************************************************)
(* C23: PageHeader::parse returns an error exactly when the buffer has     *)
(* fewer than 7 bytes or its tag byte is neither 5 nor 13; for every       *)
(* buffer of at least 7 bytes with tag 5 or 13 it returns, without         *)
(* aborting, a header whose fields are read at offsets 1, 3, 5 (raw 0      *)
(* meaning 65536) and 7, and rightmost_pointer at offset 8 for tag 5.      *)
(***************************************************************************)
C23_HeaderParsed ==
    (/\ call_in.fn = "PageHeader::parse"
     /\ call_out # Pending)
    => LET b == call_in.buffer
           word(at) == read_be_word_at(b, at)[2]
       IN  IF Len(b) < 7 \/ b[1] \notin {5, 13}
           THEN "ok" \in DOMAIN call_out /\ ~call_out.ok
           ELSE /\ "ok" \in DOMAIN call_out
                /\ call_out.ok
                /\ call_out.v.first_freeblock = word(1)
                /\ call_out.v.cell_count = word(3)
                /\ call_out.v.cell_content_offset
                   = (IF word(5) = 0 THEN 65536 ELSE word(5))
                /\ call_out.v.fragmented_bytes_count = b[8]
                /\ b[1] = 5 =>
                       call_out.v.rightmost_pointer
                       = read_be_double_word_at(b, 8)[2]

\* the bytes of call_in.buffer after the two varints that start it
C24_Remainder ==
    LET after_size == SliceFrom(call_in.buffer,
                                read_varint_at(call_in.buffer, 0)[1])
    IN  SliceFrom(after_size, read_varint_at(after_size, 0)[1])

(***************************************************************************)
(* C24: TableLeafCell::parse always succeeds; size and row_id are the two  *)
(* leading varints and the payload is the first min(size, remainder)       *)
(* bytes that follow them, the whole remainder when the declared size is   *)
(* greater than the remainder or negative.                                 *)
(***************************************************************************)
C24_LeafCell ==
    (/\ call_in.fn = "TableLeafCell::parse"
     /\ call_out # Pending)
    => LET size == read_varint_at(call_in.buffer, 0)
           row_id == read_varint_at(SliceFrom(call_in.buffer, size[1]), 0)
           rest == C24_Remainder
       IN  /\ "ok" \in DOMAIN call_out
           /\ call_out.ok
           /\ call_out.v.variant = "TableLeaf"
           /\ call_out.v.size = size[2]
           /\ call_out.v.row_id = row_id[2]
           /\ Len(call_out.v.payload) <= Len(rest)
           /\ call_out.v.payload = SubSeq(rest, 1, Len(call_out.v.payload))
           /\ IF \/ is_negative(size[2])
                 \/ i64_lt(as_i64(Len(rest)), size[2])
              THEN call_out.v.payload = rest
              ELSE as_i64(Len(call_out.v.payload)) = size[2]

\* a cell of size 2 was parsed from a buffer with three bytes after the
\* varints: its payload is the first two
C24_Witness ==
    /\ call_in.fn = "TableLeafCell::parse"
    /\ call_in.buffer = <<2, 1, 97, 128, 255>>
    /\ call_out # Pending
    /\ call_out.ok
    /\ call_out.v.payload = <<97, 128>>

\* cell_num after the i-th call made on the positioned page
C25_After(i) ==
    IF i < Len(Positioned.calls)
    THEN Positioned.calls[i + 1].before
    ELSE Positioned.self.cell_num

\* the cells of the positioned page
C25_Cells == call_in.self.page.cells

(***************************************************************************)
(* C25: on an interior positioned page, over any sequence of               *)
(* next_page_pointer and next_cell calls, next_page_pointer returns        *)
(* Some(rightmost_pointer) exactly once, at the first call made with       *)
(* cell_num >= |cells|, which sets cell_num to |cells| + 1, and None at    *)
(* every later call; on a leaf page, and on an interior page with          *)
(* cell_num < |cells|, it returns None and leaves cell_num unchanged.      *)
(***************************************************************************)
C25_RightmostOnce ==
    call_in.fn = "PositionedPage"
    => \A i \in 1..Len(Positioned.calls) :
           LET call == Positioned.calls[i]
               header == call_in.self.page.header
               earlier == \E j \in 1..(i - 1) :
                              /\ Positioned.calls[j].op = "next_page_pointer"
                              /\ Positioned.calls[j].ret.tag = "Some"
           IN  call.op = "next_page_pointer"
               => IF /\ header.variant = "TableInteriorPageHeader"
                     /\ call.before >= Len(C25_Cells)
                  THEN IF earlier
                       THEN call.ret = None
                       ELSE /\ call.ret = Some(header.rightmost_pointer)
                            /\ C25_After(i) = Len(C25_Cells) + 1
                  ELSE /\ call.ret = None
                       /\ C25_After(i) = call.before

\* what the next_cell calls made so far returned, in order
C26_Returned ==
    LET calls == Positioned.calls
        some == {i \in 1..Len(calls) :
                     calls[i].op = "next_cell" /\ calls[i].ret.tag = "Some"}
        nth(k) == CHOOSE i \in some :
                      Cardinality({j \in some : j <= i}) = k
    IN  [k \in 1..Cardinality(some) |-> calls[nth(k)].ret.v]

(***************************************************************************)
(* C26: the next_cell calls on a positioned page that starts at cell_num 0 *)
(* return cells[0], cells[1], ... each once and in index order, each       *)
(* returned cell adding one to cell_num; a call made with cell_num >=      *)
(* |cells| returns None and leaves cell_num unchanged.                     *)
(***************************************************************************)
C26_CellsInOrder ==
    call_in.fn = "PositionedPage"
    => /\ Len(C26_Returned) <= Len(C25_Cells)
       /\ C26_Returned = SubSeq(C25_Cells, 1, Len(C26_Returned))
       /\ \A i \in 1..Len(Positioned.calls) :
              LET call == Positioned.calls[i]
              IN  call.op = "next_cell"
                  => IF call.before < Len(C25_Cells)
                     THEN /\ call.ret = Some(C25_Cells[call.before + 1])
                          /\ C25_After(i) = call.before + 1
                     ELSE /\ call.ret = None
                          /\ C25_After(i) = call.before

\* three next_cell calls on a leaf page of two cells returned the first
\* cell, the second cell and None
C26_Witness ==
    /\ call_in.fn = "PositionedPage"
    /\ call_in.self.page = LeafPage(<<Row(1), Row(2)>>)
    /\ Len(Positioned.calls) = 3
    /\ \A i \in 1..3 : Positioned.calls[i].op = "next_cell"
    /\ Positioned.calls[1].ret = Some(Row(1))
    /\ Positioned.calls[2].ret = Some(Row(2))
    /\ Positioned.calls[3].ret = None
    /\ Positioned.self.cell_num = 2

\* the first iteration of the first next_record call of a scanner: the
\* root is read through the pager and pushed with cell_num 0
C27_FirstIteration ==
    /\ reads' # <<>>
    /\ reads'[1].n = initial_page_num
    /\ IF reads'[1].res.ok
       THEN /\ page_stack' # <<>>
            /\ page_stack'[1].page = reads'[1].res.v
       ELSE page_stack' = <<>>
    /\ \A fault \in RootFaults :
           LET cp == Scanner_current_page(page_stack, pages, disk, page_size,
                                          initial_page_num, fault)
           IN  cp.res.ok
               => cp.stack = <<[page |-> cp.reads[1].res.v, cell_num |-> 0]>>

(***************************************************************************)
(* C27: opening a database and creating a scanner load no page: the cache  *)
(* of the pager is empty after opening and until a page is read, creating  *)
(* a scanner reads nothing and leaves the page stack empty, and the stack  *)
(* stays empty until the first next_record call, which reads the root page *)
(* through the pager and pushes it with cell_num 0.                        *)
(***************************************************************************)
C27_LazyRoot ==
    /\ pages = <<>>
    /\ page_stack = <<>>
    /\ [](first_ret = <<>> => pages = <<>>)
    /\ []((pc = "idle" /\ result = Pending) => page_stack = <<>>)
    /\ [][/\ (pc' = "idle" /\ result' = Pending)
             => (pages' = pages /\ page_stack' = <<>> /\ reads' = <<>>)
          /\ (pc = "loop" /\ page_stack = <<>>) => C27_FirstIteration]_vars

\* the first next_record call of a scanner on a database just opened has
\* returned a record: the cache holds the root page and no other page, and
\* the stack holds the root
C27_Witness ==
    /\ pc = "idle"
    /\ Len(yielded) = 1
    /\ Len(page_stack) = 1
    /\ DOMAIN pages = {initial_page_num}
    /\ pages[initial_page_num] = page_stack[1].page
    /\ reads # <<>>
    /\ reads[1].n = initial_page_num

(***************************************************************************)
(* C28: after next_record has returned an error for a cell or a page, a    *)
(* later call on the same scanner returns no record that follows the       *)
(* failing cell or page in traversal order: on a tree, a scanner that has  *)
(* returned an error has returned no record while a record before it in    *)
(* depth-first order was not yet returned.                                 *)
(***************************************************************************)
C28_NoSkip ==
    (/\ pc \in {"idle", "loop"}
     /\ IsTree(initial_page_num)
     /\ errored)
    => LET records == LeafRecords(initial_page_num)
       IN  \A j \in 1..Len(yielded) :
               \A k \in 1..(Place(yielded[j].payload, records) - 1) :
                   \E i \in 1..(j - 1) : yielded[i].payload = records[k]

RECURSIVE C29_Height(_)
\* the number of pages on the longest path from page n down to a leaf
C29_Height(n) ==
    LET page == PageOf(n).v
        below == {C29_Height(c) : c \in Children(page)}
    IN  IF IsInterior(page)
        THEN 1 + (CHOOSE h \in below : \A g \in below : g <= h)
        ELSE 1

\* the pointer a positioned page emitted last
C29_Emitted(e) ==
    IF e.cell_num > Len(e.page.cells)
    THEN e.page.header.rightmost_pointer
    ELSE e.page.cells[e.cell_num].left_child_page

(***************************************************************************)
(* C29: once the root page has been pushed the page stack of the scanner   *)
(* is never empty and its bottom entry is the root page; every entry above *)
(* the bottom is the page named by the pointer that the entry below it     *)
(* emitted; over an acyclic tree the depth of the stack is at most the     *)
(* height of the tree.                                                     *)
(***************************************************************************)
C29_Stack ==
    /\ [](page_stack # <<>> =>
            /\ page_stack[1].page = pages[initial_page_num]
            /\ \A i \in 1..(Len(page_stack) - 1) :
                   /\ IsInterior(page_stack[i].page)
                   /\ page_stack[i].cell_num >= 1
                   /\ page_stack[i + 1].page
                      = pages[C29_Emitted(page_stack[i])]
            /\ IsTree(initial_page_num) =>
                   Len(page_stack) <= C29_Height(initial_page_num))
    /\ [][(pc = "loop" /\ page_stack # <<>>)
          => /\ page_stack' # <<>>
             /\ page_stack'[1].page = page_stack[1].page]_vars

\* the stack is three pages deep over a tree of height three
C29_Witness ==
    /\ IsTree(initial_page_num)
    /\ Len(page_stack) = 3
    /\ C29_Height(initial_page_num) = 3

(***************************************************************************)
(* C30: once next_record has returned None on a scanner, every later       *)
(* next_record call on that scanner returns None as well, yields no        *)
(* record, reads no page from the pager and leaves the page stack          *)
(* unchanged.                                                              *)
(***************************************************************************)
C30_NoneForEver ==
    [][(ended # "no" /\ pc = "loop")
       => /\ result' = ReturnedNone
          /\ pc' = "idle"
          /\ yielded' = yielded
          /\ reads' = <<>>
          /\ pages' = pages
          /\ page_stack' = page_stack]_vars

\* a call made after None was returned has returned None again, after the
\* scanner had yielded records
C30_Witness ==
    /\ ended = "again"
    /\ pc = "idle"
    /\ result = ReturnedNone
    /\ Len(yielded) >= 1

====
